---- MODULE Spec2Model ----
(***************************************************************************)
(* The GEMM autotuner of examples/autotuner/blas3.cpp: the tuning          *)
(* parameter space registered by run_autotune, the validity predicate of  *)
(* blas3_config, and the multi-round refinement loop of run_autotune.      *)
(*                                                                         *)
(* viennacl/generator/autotune.hpp (tuning_param, tuning_config, inc::*,   *)
(* benchmark) and matrix_product_profile are not part of the sources at    *)
(* hand; the definitions that stand for them follow the design text and    *)
(* are marked "design text" where they are introduced.                     *)
(***************************************************************************)
EXTENDS Integers, Sequences, FiniteSets, TLC

(***************************************************************************)
(* Bounds of the model.                                                    *)
(***************************************************************************)
\* elapsed times reported by the backend are drawn from 1..MaxTime
MaxTime == 3
\* the keep counts of the two rounds (70 and 20 in the source), scaled to the
\* number of distinct times
KeepFirst == 1
KeepSecond == 0

(***************************************************************************)
(* Program constants.                                                      *)
(***************************************************************************)
\* rounds_config holds two rounds
NumRounds == 2
\* the problem sizes of the two rounds
SizeFirst == 512
SizeSecond == 4096
\* the keep count the source gives the second round
KeepCountSecond == 20

(***************************************************************************)
(* The tuning parameter space.                                             *)
(***************************************************************************)
\* a mutation of the registration: "ml" swept only up to 128
tuning_params_short ==
  << [name |-> "ml", min |-> 16, max |-> 128, inc |-> "mul_by_two"],
     [name |-> "kl", min |-> 16, max |-> 256, inc |-> "mul_by_two"],
     [name |-> "nl", min |-> 16, max |-> 256, inc |-> "mul_by_two"],
     [name |-> "ms", min |-> 2, max |-> 16, inc |-> "mul_by_two"],
     [name |-> "ks", min |-> 2, max |-> 16, inc |-> "mul_by_two"],
     [name |-> "ns", min |-> 2, max |-> 16, inc |-> "mul_by_two"],
     [name |-> "vector", min |-> 1, max |-> 4, inc |-> "mul_by_two"],
     [name |-> "lhs_storage", min |-> 1, max |-> 1, inc |-> "add_one"],
     [name |-> "rhs_storage", min |-> 0, max |-> 0, inc |-> "add_one"],
     [name |-> "unroll", min |-> 1, max |-> 1, inc |-> "mul_by_two"] >>

\* a mutation of the registration: "rhs_storage" (0..0) given the doubling step
tuning_params_zero ==
  << [name |-> "ml", min |-> 16, max |-> 256, inc |-> "mul_by_two"],
     [name |-> "kl", min |-> 16, max |-> 256, inc |-> "mul_by_two"],
     [name |-> "nl", min |-> 16, max |-> 256, inc |-> "mul_by_two"],
     [name |-> "ms", min |-> 2, max |-> 16, inc |-> "mul_by_two"],
     [name |-> "ks", min |-> 2, max |-> 16, inc |-> "mul_by_two"],
     [name |-> "ns", min |-> 2, max |-> 16, inc |-> "mul_by_two"],
     [name |-> "vector", min |-> 1, max |-> 4, inc |-> "mul_by_two"],
     [name |-> "lhs_storage", min |-> 1, max |-> 1, inc |-> "add_one"],
     [name |-> "rhs_storage", min |-> 0, max |-> 0, inc |-> "mul_by_two"],
     [name |-> "unroll", min |-> 1, max |-> 1, inc |-> "mul_by_two"] >>

\* conf.add_tuning_param(name, min, max, step), in registration order
tuning_params ==
  << [name |-> "ml", min |-> 16, max |-> 256, inc |-> "mul_by_two"],
     [name |-> "kl", min |-> 16, max |-> 256, inc |-> "mul_by_two"],
     [name |-> "nl", min |-> 16, max |-> 256, inc |-> "mul_by_two"],
     [name |-> "ms", min |-> 2, max |-> 16, inc |-> "mul_by_two"],
     [name |-> "ks", min |-> 2, max |-> 16, inc |-> "mul_by_two"],
     [name |-> "ns", min |-> 2, max |-> 16, inc |-> "mul_by_two"],
     [name |-> "vector", min |-> 1, max |-> 4, inc |-> "mul_by_two"],
     [name |-> "lhs_storage", min |-> 1, max |-> 1, inc |-> "add_one"],
     [name |-> "rhs_storage", min |-> 0, max |-> 0, inc |-> "add_one"],
     [name |-> "unroll", min |-> 1, max |-> 1, inc |-> "mul_by_two"] >>

NumParams == Len(tuning_params)
ParamNames == {tuning_params[a].name : a \in 1..NumParams}

\* design text: the step functions inc::mul_by_two and inc::add_one; the values
\* are unsigned int, and no value of the registered axes comes near 2^32
\* (the largest a step returns is 512)
inc_apply(inc, v) ==
  IF inc = "mul_by_two" THEN v * 2 ELSE v + 1

\* design text: the position of the axis registered under a name
AxisIndex ==
  [name \in ParamNames |-> CHOOSE a \in 1..NumParams : tuning_params[a].name = name]

AxisOf(name) == AxisIndex[name]

\* design text: the values one axis takes, min, step(min), ... while <= max
AxisValues ==
  [a \in 1..NumParams |->
     LET sweep[v \in 0..(2 * tuning_params[a].max + 1)] ==
           IF v > tuning_params[a].max
             THEN << >>
             ELSE << v >> \o sweep[inc_apply(tuning_params[a].inc, v)]
     IN  sweep[tuning_params[a].min]]

\* design text: the number of configurations spanned by the axes a..NumParams
Span[a \in 1..(NumParams + 1)] ==
  IF a > NumParams THEN 1 ELSE Len(AxisValues[a]) * Span[a + 1]

NumConfs == Span[1]

\* design text: the i-th configuration (i = 0 first) of the nested sweep, the
\* first registered axis outermost and the last registered axis innermost
ConfAt(i) ==
  [name \in ParamNames |->
     LET a == AxisOf(name)
     IN  AxisValues[a][((i \div Span[a + 1]) % Len(AxisValues[a])) + 1]]

\* design text: the index of value v on axis a (0 first)
ValueIndex(a, v) ==
  (CHOOSE j \in 1..Len(AxisValues[a]) : AxisValues[a][j] = v) - 1

\* design text: the nested-sweep rank of a configuration
Rank(c) ==
  LET from[a \in 1..(NumParams + 1)] ==
        IF a > NumParams
          THEN 0
          ELSE ValueIndex(a, c[tuning_params[a].name]) * Span[a + 1] + from[a + 1]
  IN  from[1]

(***************************************************************************)
(* Kernel profiles and their validity.                                     *)
(***************************************************************************)
ScalarTypes == {"float", "double"}

\* sizeof(ScalarType) of the two instantiations of run_autotune
SizeOf(st) == IF st = "float" THEN 4 ELSE 8

\* a mutation of create_profile: "ml" and "nl" passed in each other's place
create_profile_swapped(params) ==
  [ml |-> params["nl"], kl |-> params["kl"], nl |-> params["ml"],
   ms |-> params["ms"], ks |-> params["ks"], ns |-> params["ns"],
   use_LHS_shared |-> params["lhs_storage"] # 0,
   use_RHS_shared |-> params["rhs_storage"] # 0,
   vectorization |-> params["vector"],
   unroll |-> params["unroll"]]

\* blas3_config::create_profile: the profile built from the current values
create_profile(params) ==
  [ml |-> params["ml"], kl |-> params["kl"], nl |-> params["nl"],
   ms |-> params["ms"], ks |-> params["ks"], ns |-> params["ns"],
   use_LHS_shared |-> params["lhs_storage"] # 0,
   use_RHS_shared |-> params["rhs_storage"] # 0,
   vectorization |-> params["vector"],
   unroll |-> params["unroll"]]

\* design text: the local memory one kernel of the profile stages, in bytes:
\* the ml x kl block of the left operand and the kl x nl block of the right
\* operand, each counted when the operand is staged in local memory
local_mem_usage(prof, scalartype_size) ==
  ( (IF prof.use_LHS_shared THEN prof.ml * prof.kl ELSE 0)
  + (IF prof.use_RHS_shared THEN prof.kl * prof.nl ELSE 0) ) * scalartype_size

\* design text: the number of work-items of one work-group
work_group_size(prof) == (prof.ml \div prof.ms) * (prof.nl \div prof.ns)

\* design text: matrix_product_profile::is_invalid(dev, scalartype_size)
profile_is_invalid(prof, device, scalartype_size) ==
  \/ local_mem_usage(prof, scalartype_size) > device.local_mem_size
  \/ work_group_size(prof) > device.max_work_group_size
  \/ prof.ml % prof.ms # 0
  \/ prof.kl % prof.ks # 0
  \/ prof.nl % prof.ns # 0
  \/ prof.ml % prof.vectorization # 0
  \/ prof.kl % prof.vectorization # 0
  \/ prof.nl % prof.vectorization # 0

\* a mutation of blas3_config::is_invalid: the element size left at one byte
is_invalid_bytes(device, params, st) ==
  profile_is_invalid(create_profile(params), device, 1)

\* a mutation of blas3_config::is_invalid: no candidate is ever rejected
is_invalid_never(device, params, st) == FALSE

\* blas3_config<ScalarType>::is_invalid(dev, params)
is_invalid(device, params, st) ==
  profile_is_invalid(create_profile(params), device, SizeOf(st))

(***************************************************************************)
(* tuning_config as an odometer: the configuration the sweep is at, and    *)
(* update() moving it to the next one.                                     *)
(***************************************************************************)
VARIABLES
  \* the enumeration: the configuration the sweep is at, the number of
  \* configurations visited, the axis steps of the last update(), and whether
  \* the sweep has ended
  conf, count, stepped, enumDone,
  \* one evaluation of blas3_config::is_invalid: whether it was made, its
  \* arguments and its result
  probed, probe_dev, probe_params, probe_scalartype, probe_result,
  \* run_autotune: the place in the function, its template argument, the
  \* selected device, and its locals
  pc, scalartype, dev, rounds_config, k, timings, fastest_firsts,
  \* benchmark: the index of the candidate it is at
  pos,
  \* history of the current round: the list fastest_firsts held when the round
  \* began, the candidates compiled and launched so far, those of the round
  \* before, the first candidate whose compilation or launch failed (a set of
  \* at most one profile), and the smallest elapsed time measured (0: none yet)
  seeds, benchmarked, benchmarked_prev, failed, min_time,
  \* body_code::value: the number of calls made, the expression list of the
  \* last call and the text it returned, the text the first call returned for
  \* each expression list, and the value nested_repeats_counter held when the
  \* last fill_expression_updates::execute returned
  emit_calls, emit_expr, emit_out, emit_first, dummy,
  \* main: the argument vector and the platforms of the machine (the number of
  \* devices of each), the place in main, its locals, what was written to
  \* std::cerr, whether get_platforms was called, and the exit code (-1 while
  \* the process runs)
  argv, platforms, main_pc, requested_device, layout, arg_scalartype,
  platform_k, device_it, current_device, err_out, platforms_queried, exit_code,
  \* the call of run_autotune made by main: the place in it, its template
  \* argument and its two parameters, the index of the round, the operations
  \* the device has not completed yet, the candidates benchmark has still to
  \* evaluate, the number of rounds whose retained list is built, and the
  \* calls of benchmark made
  ra_pc, ra_args, ra_k, in_flight, cands_left, built, bench_calls,
  \* precondition (ILUT): the place in the function, its arguments A, output
  \* and tag, the index i of the row loop, and for each row processed the
  \* working row w as it was before w.clear() (or when the exception left)
  ilut_pc, ilut_A, ilut_output, ilut_arg_tag, ilut_i, ilut_w,
  \* prod_impl(coordinate_matrix, vector_base, vector_base): the place in the
  \* function, the row of each entry of the matrix, the boundaries of the
  \* groups, and the result vector; and for each thread block of
  \* coordinate_matrix_vec_mul_kernel the place in the kernel, the loop
  \* counter k, the two __shared__ arrays, and the registers tmp.x and
  \* local_index of each thread
  coo_pc, coords, group_boundaries, result,
  block_pc, block_k, shared_rows, inter_results, tmp, local_index,
  \* ilut_precond<compressed_matrix>: whether the object is constructed, the
  \* ilut_tag object the member tag_ refers to (its flag, and whether its lifetime
  \* has ended), the memory of the matrix, whether init built the multifrontal
  \* L/U structures, the flag init read, and for each call of apply the memory
  \* of the vector, the flag it read and the branch it took
  precond_pc, tag_, mat_memory, multifrontal_built, init_seen, apply_calls,
  \* prod_impl(coordinate_matrix, matrix_base, matrix_base): the place in the
  \* function, the rows of the entries, the group boundaries and the result
  \* matrix; and for each thread block of coordinate_matrix_d_mat_mul_kernel the
  \* place in the kernel, the counters result_col and k, the two __shared__
  \* arrays, and the registers tmp.x and local_index of each thread
  dmm_pc, dmm_coords, dmm_group_boundaries, dmm_result, dmm_block_pc, dmm_result_col, dmm_k, dmm_shared_rows, dmm_inter_results, dmm_tmp, dmm_local_index,
  \* prod_impl(sliced_ell_matrix, vector_base, vector_base): the place in the
  \* function, num_rows = size_result and local_size = blockDim.x =
  \* rows_per_block, the counter block_idx of each thread block of
  \* sliced_ell_matrix_vec_mul_kernel, the indices at which block_start and
  \* columns_per_block were read, and the number of stores made to each result[row]
  sell_pc, num_rows, local_size, block_idx, block_reads, stores,
  \* prod_impl(compressed_compressed_matrix, vector_base, vector_base): the
  \* place in the function, the size of result, the rows that have entries, and
  \* the result vector; for each thread of
  \* compressed_compressed_matrix_vec_mul_kernel the loop it is in and its counter
  \* i; and for each entry of result the threads that have stored to it
  ccm_pc, size_result, row_indices, ccm_result, ccm_loop, ccm_i, storers,
  \* row_info of a compressed_matrix and of a coordinate_matrix holding the same
  \* entries: the place in the comparison, the entries (row, column, value)
  \* sorted by row, the selector, the group boundaries of the coordinate matrix,
  \* the vector each row_info fills; and for each thread block of
  \* coo_row_info_extractor the place in the kernel, the counter k, the two
  \* __shared__ arrays, and the registers tmp.x and local_index of each thread
  ri_pc, ri_mat, option, ri_group_boundaries, csr_result, coo_result, ri_block_pc, ri_k, ri_shared_rows, ri_inter_results, ri_tmp, ri_local_index,
  \* prod_impl(compressed_matrix, vector_base, vector_base): the place in the
  \* function, the number of entries of each row of the matrix, the first row
  \* of each row block, and the thread block of
  \* compressed_matrix_vec_mul_adaptive_kernel that is followed; for each of its
  \* threads the place in the kernel and the registers block_id, i (or row) and
  \* stride; the __shared__ array, the result vector, and the slots of the
  \* __shared__ array each thread has read and written since the last barrier
  adp_pc, row_lengths, row_blocks, blockIdx, thr_pc, thr_block_id, thr_i, thr_stride, shared_elements, adp_result, shared_reads, shared_writes

enumVars == << conf, count, stepped, enumDone >>
probeVars == << probed, probe_dev, probe_params, probe_scalartype, probe_result >>
tuneVars == << pc, scalartype, dev, rounds_config, k, timings, fastest_firsts,
               pos, seeds, benchmarked, benchmarked_prev, failed, min_time >>
emitVars == << emit_calls, emit_expr, emit_out, emit_first, dummy >>
mainVars == << argv, platforms, main_pc, requested_device, layout, arg_scalartype,
               platform_k, device_it, current_device, err_out, platforms_queried,
               exit_code, ra_pc, ra_args, ra_k, in_flight, cands_left, built,
               bench_calls >>
ilutVars == << ilut_pc, ilut_A, ilut_output, ilut_arg_tag, ilut_i, ilut_w >>
cooVars == << coo_pc, coords, group_boundaries, result,
              block_pc, block_k, shared_rows, inter_results, tmp, local_index >>
precondVars == << precond_pc, tag_, mat_memory, multifrontal_built, init_seen, apply_calls >>
dmmVars == << dmm_pc, dmm_coords, dmm_group_boundaries, dmm_result, dmm_block_pc, dmm_result_col, dmm_k, dmm_shared_rows, dmm_inter_results, dmm_tmp, dmm_local_index >>
sellVars == << sell_pc, num_rows, local_size, block_idx, block_reads, stores >>
ccmVars == << ccm_pc, size_result, row_indices, ccm_result, ccm_loop, ccm_i, storers >>
riVars == << ri_pc, ri_mat, option, ri_group_boundaries, csr_result, coo_result, ri_block_pc, ri_k, ri_shared_rows, ri_inter_results, ri_tmp, ri_local_index >>
adpVars == << adp_pc, row_lengths, row_blocks, blockIdx, thr_pc, thr_block_id, thr_i, thr_stride, shared_elements, adp_result, shared_reads, shared_writes >>
vars == << enumVars, probeVars, tuneVars, emitVars, mainVars, ilutVars, cooVars, precondVars, dmmVars, sellVars, ccmVars, riVars, adpVars >>

\* what each part of the model leaves alone
notEnum == << probeVars, tuneVars, emitVars, mainVars, ilutVars, cooVars, precondVars, dmmVars, sellVars, ccmVars, riVars, adpVars >>
notProbe == << enumVars, tuneVars, emitVars, mainVars, ilutVars, cooVars, precondVars, dmmVars, sellVars, ccmVars, riVars, adpVars >>
notTune == << enumVars, probeVars, emitVars, mainVars, ilutVars, cooVars, precondVars, dmmVars, sellVars, ccmVars, riVars, adpVars >>
notEmit == << enumVars, probeVars, tuneVars, mainVars, ilutVars, cooVars, precondVars, dmmVars, sellVars, ccmVars, riVars, adpVars >>
notMain == << enumVars, probeVars, tuneVars, emitVars, ilutVars, cooVars, precondVars, dmmVars, sellVars, ccmVars, riVars, adpVars >>
notIlut == << enumVars, probeVars, tuneVars, emitVars, mainVars, cooVars, precondVars, dmmVars, sellVars, ccmVars, riVars, adpVars >>
notCoo == << enumVars, probeVars, tuneVars, emitVars, mainVars, ilutVars, precondVars, dmmVars, sellVars, ccmVars, riVars, adpVars >>
notPrecond == << enumVars, probeVars, tuneVars, emitVars, mainVars, ilutVars, cooVars, dmmVars, sellVars, ccmVars, riVars, adpVars >>
notDmm == << enumVars, probeVars, tuneVars, emitVars, mainVars, ilutVars, cooVars, precondVars, sellVars, ccmVars, riVars, adpVars >>
notSell == << enumVars, probeVars, tuneVars, emitVars, mainVars, ilutVars, cooVars, precondVars, dmmVars, ccmVars, riVars, adpVars >>
notCcm == << enumVars, probeVars, tuneVars, emitVars, mainVars, ilutVars, cooVars, precondVars, dmmVars, sellVars, riVars, adpVars >>
notRi == << enumVars, probeVars, tuneVars, emitVars, mainVars, ilutVars, cooVars, precondVars, dmmVars, sellVars, ccmVars, adpVars >>
notAdp == << enumVars, probeVars, tuneVars, emitVars, mainVars, ilutVars, cooVars, precondVars, dmmVars, sellVars, ccmVars, riVars >>

\* design text: every parameter starts at its min
FirstConf == [name \in ParamNames |-> tuning_params[AxisOf(name)].min]

\* design text: tuning_param::inc, the value after one step and whether the
\* axis ran past its max (and was reset to min)
ParamInc(a, v) ==
  LET n == inc_apply(tuning_params[a].inc, v)
  IN  IF n <= tuning_params[a].max
        THEN [value |-> n, wrapped |-> FALSE, raw |-> n]
        ELSE [value |-> tuning_params[a].min, wrapped |-> TRUE, raw |-> n]

\* design text: tuning_config::update, stepping the innermost axis and carrying
\* into the next outer one each time an axis wraps; acc is the list of the
\* steps taken, << axis, value before, value the step function returned >>
RECURSIVE UpdateFrom(_, _, _)
UpdateFrom(c, a, acc) ==
  IF a < 1
    THEN [conf |-> c, steps |-> acc, exhausted |-> TRUE]
    ELSE LET name == tuning_params[a].name
             r    == ParamInc(a, c[name])
             c2   == [c EXCEPT ![name] = r.value]
             acc2 == Append(acc, << a, c[name], r.raw >>)
         IN  IF r.wrapped
               THEN UpdateFrom(c2, a - 1, acc2)
               ELSE [conf |-> c2, steps |-> acc2, exhausted |-> FALSE]

\* the parts of the state a specification leaves alone
EnumIdle ==
  /\ conf = << >>
  /\ count = 0
  /\ stepped = << >>
  /\ enumDone = FALSE

ProbeIdle ==
  /\ probed = FALSE
  /\ probe_dev = [local_mem_size |-> 0, max_work_group_size |-> 0]
  /\ probe_params = << >>
  /\ probe_scalartype = "float"
  /\ probe_result = FALSE

TuneIdle ==
  /\ pc = "idle"
  /\ scalartype = "float"
  /\ dev = [local_mem_size |-> 0, max_work_group_size |-> 0]
  /\ rounds_config = << >>
  /\ k = 0
  /\ timings = {}
  /\ fastest_firsts = << >>
  /\ pos = 0
  /\ seeds = << >>
  /\ benchmarked = << >>
  /\ benchmarked_prev = << >>
  /\ failed = {}
  /\ min_time = 0

EmitIdle ==
  /\ emit_calls = 0
  /\ emit_expr = 0
  /\ emit_out = ""
  /\ emit_first = << >>
  /\ dummy = 0

MainIdle ==
  /\ argv = << >>
  /\ platforms = << >>
  /\ main_pc = "idle"
  /\ requested_device = 0
  /\ layout = 0
  /\ arg_scalartype = << >>
  /\ platform_k = 0
  /\ device_it = 0
  /\ current_device = 0
  /\ err_out = ""
  /\ platforms_queried = FALSE
  /\ exit_code = -1
  /\ ra_pc = "idle"
  /\ ra_args = << >>
  /\ ra_k = 0
  /\ in_flight = [transfers |-> 0, kernels |-> 0]
  /\ cands_left = 0
  /\ built = 0
  /\ bench_calls = << >>

IlutIdle ==
  /\ ilut_pc = "idle"
  /\ ilut_A = << >>
  /\ ilut_output = << >>
  /\ ilut_arg_tag = << >>
  /\ ilut_i = 0
  /\ ilut_w = << >>

CooIdle ==
  /\ coo_pc = "idle"
  /\ coords = << >>
  /\ group_boundaries = << >>
  /\ result = << >>
  /\ block_pc = << >>
  /\ block_k = << >>
  /\ shared_rows = << >>
  /\ inter_results = << >>
  /\ tmp = << >>
  /\ local_index = << >>

PrecondIdle ==
  /\ precond_pc = "idle"
  /\ tag_ = << >>
  /\ mat_memory = ""
  /\ multifrontal_built = FALSE
  /\ init_seen = FALSE
  /\ apply_calls = << >>

DmmIdle ==
  /\ dmm_pc = "idle"
  /\ dmm_coords = << >>
  /\ dmm_group_boundaries = << >>
  /\ dmm_result = << >>
  /\ dmm_block_pc = << >>
  /\ dmm_result_col = << >>
  /\ dmm_k = << >>
  /\ dmm_shared_rows = << >>
  /\ dmm_inter_results = << >>
  /\ dmm_tmp = << >>
  /\ dmm_local_index = << >>

SellIdle ==
  /\ sell_pc = "idle"
  /\ num_rows = 0
  /\ local_size = 0
  /\ block_idx = << >>
  /\ block_reads = {}
  /\ stores = << >>

CcmIdle ==
  /\ ccm_pc = "idle"
  /\ size_result = 0
  /\ row_indices = << >>
  /\ ccm_result = << >>
  /\ ccm_loop = << >>
  /\ ccm_i = << >>
  /\ storers = << >>

RiIdle ==
  /\ ri_pc = "idle"
  /\ ri_mat = << >>
  /\ option = 0
  /\ ri_group_boundaries = << >>
  /\ csr_result = << >>
  /\ coo_result = << >>
  /\ ri_block_pc = << >>
  /\ ri_k = << >>
  /\ ri_shared_rows = << >>
  /\ ri_inter_results = << >>
  /\ ri_tmp = << >>
  /\ ri_local_index = << >>

AdpIdle ==
  /\ adp_pc = "idle"
  /\ row_lengths = << >>
  /\ row_blocks = << >>
  /\ blockIdx = 0
  /\ thr_pc = << >>
  /\ thr_block_id = << >>
  /\ thr_i = << >>
  /\ thr_stride = << >>
  /\ shared_elements = << >>
  /\ adp_result = << >>
  /\ shared_reads = << >>
  /\ shared_writes = << >>

\* every part of the model but one at rest
IdleButEnum == ProbeIdle /\ TuneIdle /\ EmitIdle /\ MainIdle /\ IlutIdle /\ CooIdle /\ PrecondIdle /\ DmmIdle /\ SellIdle /\ CcmIdle /\ RiIdle /\ AdpIdle
IdleButProbe == EnumIdle /\ TuneIdle /\ EmitIdle /\ MainIdle /\ IlutIdle /\ CooIdle /\ PrecondIdle /\ DmmIdle /\ SellIdle /\ CcmIdle /\ RiIdle /\ AdpIdle
IdleButTune == EnumIdle /\ ProbeIdle /\ EmitIdle /\ MainIdle /\ IlutIdle /\ CooIdle /\ PrecondIdle /\ DmmIdle /\ SellIdle /\ CcmIdle /\ RiIdle /\ AdpIdle
IdleButEmit == EnumIdle /\ ProbeIdle /\ TuneIdle /\ MainIdle /\ IlutIdle /\ CooIdle /\ PrecondIdle /\ DmmIdle /\ SellIdle /\ CcmIdle /\ RiIdle /\ AdpIdle
IdleButMain == EnumIdle /\ ProbeIdle /\ TuneIdle /\ EmitIdle /\ IlutIdle /\ CooIdle /\ PrecondIdle /\ DmmIdle /\ SellIdle /\ CcmIdle /\ RiIdle /\ AdpIdle
IdleButIlut == EnumIdle /\ ProbeIdle /\ TuneIdle /\ EmitIdle /\ MainIdle /\ CooIdle /\ PrecondIdle /\ DmmIdle /\ SellIdle /\ CcmIdle /\ RiIdle /\ AdpIdle
IdleButCoo == EnumIdle /\ ProbeIdle /\ TuneIdle /\ EmitIdle /\ MainIdle /\ IlutIdle /\ PrecondIdle /\ DmmIdle /\ SellIdle /\ CcmIdle /\ RiIdle /\ AdpIdle
IdleButPrecond == EnumIdle /\ ProbeIdle /\ TuneIdle /\ EmitIdle /\ MainIdle /\ IlutIdle /\ CooIdle /\ DmmIdle /\ SellIdle /\ CcmIdle /\ RiIdle /\ AdpIdle
IdleButDmm == EnumIdle /\ ProbeIdle /\ TuneIdle /\ EmitIdle /\ MainIdle /\ IlutIdle /\ CooIdle /\ PrecondIdle /\ SellIdle /\ CcmIdle /\ RiIdle /\ AdpIdle
IdleButSell == EnumIdle /\ ProbeIdle /\ TuneIdle /\ EmitIdle /\ MainIdle /\ IlutIdle /\ CooIdle /\ PrecondIdle /\ DmmIdle /\ CcmIdle /\ RiIdle /\ AdpIdle
IdleButCcm == EnumIdle /\ ProbeIdle /\ TuneIdle /\ EmitIdle /\ MainIdle /\ IlutIdle /\ CooIdle /\ PrecondIdle /\ DmmIdle /\ SellIdle /\ RiIdle /\ AdpIdle
IdleButRi == EnumIdle /\ ProbeIdle /\ TuneIdle /\ EmitIdle /\ MainIdle /\ IlutIdle /\ CooIdle /\ PrecondIdle /\ DmmIdle /\ SellIdle /\ CcmIdle /\ AdpIdle
IdleButAdp == EnumIdle /\ ProbeIdle /\ TuneIdle /\ EmitIdle /\ MainIdle /\ IlutIdle /\ CooIdle /\ PrecondIdle /\ DmmIdle /\ SellIdle /\ CcmIdle /\ RiIdle

InitEnum ==
  /\ conf = FirstConf
  /\ count = 1
  /\ stepped = << >>
  /\ enumDone = FALSE
  /\ IdleButEnum

\* one pass of the enumeration loop: update() and visit the configuration
EnumUpdate ==
  /\ ~enumDone
  /\ LET u == UpdateFrom(conf, NumParams, << >>)
     IN  /\ stepped' = u.steps
         /\ IF u.exhausted
              THEN /\ enumDone' = TRUE
                   /\ UNCHANGED << conf, count >>
              ELSE /\ enumDone' = FALSE
                   /\ conf' = u.conf
                   /\ count' = count + 1
  /\ UNCHANGED notEnum

NextEnum == EnumUpdate

SpecEnum == InitEnum /\ [][NextEnum]_vars

(***************************************************************************)
(* blas3_config::is_invalid applied to one device, one set of parameter    *)
(* values and one scalar type.                                             *)
(***************************************************************************)
\* the inputs: devices from a 1 KB / single work-item device up to the 16 KB
\* devices of the design text, tile sizes at both ends of their axes, and
\* sub-tile sizes that do and do not divide them
ProbeDevices ==
  { [local_mem_size |-> m, max_work_group_size |-> w] :
      m \in {1024, 16384}, w \in {1, 256} }
ProbeTiles == {16, 256}
ProbeSubTiles == {2, 3, 16}
ProbeFlags == {0, 1}
ProbeVectors == {1, 4}
ProbeParams ==
  { [ml |-> t[1], kl |-> t[2], nl |-> t[3], ms |-> u[1], ks |-> u[2], ns |-> u[3],
     vector |-> v, lhs_storage |-> f[1], rhs_storage |-> f[2], unroll |-> 1] :
      t \in ProbeTiles \X ProbeTiles \X ProbeTiles,
      u \in ProbeSubTiles \X {2, 3} \X {2, 16},
      v \in ProbeVectors,
      f \in ProbeFlags \X ProbeFlags }

InitProbe ==
  /\ ProbeIdle
  /\ IdleButProbe

Probe ==
  /\ ~probed
  /\ probed' = TRUE
  /\ \E d \in ProbeDevices, ps \in ProbeParams, st \in ScalarTypes :
       /\ probe_dev' = d
       /\ probe_params' = ps
       /\ probe_scalartype' = st
       /\ probe_result' = is_invalid(d, ps, st)
  /\ UNCHANGED notProbe

NextProbe == Probe

SpecProbe == InitProbe /\ [][NextProbe]_vars

(***************************************************************************)
(* run_autotune.                                                           *)
(***************************************************************************)
Times == 1..MaxTime

\* the devices tuned on: the smallest device on which a float kernel of the
\* registered space fits (one 16 x 16 block of floats, one work-item)
TuneDevices == { [local_mem_size |-> 1024, max_work_group_size |-> 1] }

\* rounds_config after the two push_back: (512, 70), (4096, 20), with the keep
\* counts scaled
RoundsConfig ==
  << [size |-> SizeFirst, n_keep |-> KeepFirst],
     [size |-> SizeSecond, n_keep |-> KeepSecond] >>

Range(seq) == {seq[i] : i \in 1..Len(seq)}

Min(S) == CHOOSE x \in S : \A y \in S : x <= y

\* the positions of the sweep at which is_invalid is false, per device and
\* scalar type
ValidPos ==
  [d \in TuneDevices |->
     [st \in ScalarTypes |->
        {i \in 0..(NumConfs - 1) : ~is_invalid(d, ConfAt(i), st)}]]

\* a mutation of the dispatch: every round benchmarks the whole configuration
benchmark_source_conf(round) == "conf"

\* the candidates benchmark is called with: conf in round 0, fastest_firsts in
\* the later rounds
benchmark_source(round) == IF round = 0 THEN "conf" ELSE "fastest_firsts"

\* design text: the number of candidates of the current call of benchmark
NumCands ==
  IF benchmark_source(k) = "conf" THEN NumConfs ELSE Len(fastest_firsts)

\* design text: the profile of candidate i (0 first)
CandAt(i) ==
  IF benchmark_source(k) = "conf"
    THEN create_profile(ConfAt(i))
    ELSE fastest_firsts[i + 1]

\* design text: the validity check benchmark makes before compiling
CandInvalid(i) ==
  IF benchmark_source(k) = "conf"
    THEN is_invalid(dev, ConfAt(i), scalartype)
    ELSE profile_is_invalid(fastest_firsts[i + 1], dev, SizeOf(scalartype))

\* design text: the candidates of the current call that pass the check
ValidCands ==
  IF benchmark_source(k) = "conf"
    THEN ValidPos[dev][scalartype]
    ELSE {i \in 0..(NumCands - 1) : ~CandInvalid(i)}

\* design text: the first candidate after i that passes the check, or the end
NextValid(i) ==
  LET later == {j \in ValidCands : j > i}
  IN  IF later = {} THEN NumCands ELSE Min(later)

\* a mutation of the insertion: nothing is ever erased from the table
timings_clear_kept(table) == table

\* a mutation of the clearing: the entry of the largest key is left behind
timings_clear_stale(table) == {e \in table : \A y \in table : y.time <= e.time}

\* timings.clear()
timings_clear(table) == {}

\* design text: benchmark records (time, profile) in the std::map: an entry
\* whose key is already present is not inserted
timings_insert(table, t, prof) ==
  IF \E e \in table : e.time = t
    THEN table
    ELSE table \cup {[time |-> t, profile |-> prof]}

\* a mutation of the iteration: from the largest key down
map_order_descending(table) ==
  LET RECURSIVE Desc(_)
      Desc(T) ==
        IF T = {}
          THEN << >>
          ELSE LET e == CHOOSE x \in T : \A y \in T : y.time <= x.time
               IN  << e >> \o Desc(T \ {e})
  IN  Desc(table)

\* the entries of the std::map from timings.begin() to timings.end(): in
\* ascending order of the key
map_order(table) ==
  LET RECURSIVE Asc(_)
      Asc(T) ==
        IF T = {}
          THEN << >>
          ELSE LET e == CHOOSE x \in T : \A y \in T : x.time <= y.time
               IN  << e >> \o Asc(T \ {e})
  IN  Asc(table)

\* a mutation of the clearing of the list: it keeps what it held
list_clear_kept(list) == list

\* fastest_firsts.clear()
list_clear(list) == << >>

\* a mutation of the insertion into the list: at its front
push_front(list, prof) == << prof >> \o list

\* fastest_firsts.push_back(itt->second)
push_back(list, prof) == Append(list, prof)

\* a mutation of the loop: the break is never taken
RECURSIVE keep_loop_all(_, _, _, _)
keep_loop_all(entries, n, n_keep, list) ==
  IF n >= Len(entries)
    THEN list
    ELSE keep_loop_all(entries, n + 1, n_keep,
                       push_back(list, entries[n + 1].profile))

\* the loop over the timing table that refills fastest_firsts; n is
\* std::distance(timings.begin(), itt)
RECURSIVE keep_loop(_, _, _, _)
keep_loop(entries, n, n_keep, list) ==
  IF n >= Len(entries)
    THEN list
    ELSE IF n > n_keep
           THEN list
           ELSE keep_loop(entries, n + 1, n_keep,
                          push_back(list, entries[n + 1].profile))

Init ==
  /\ pc = "round_start"
  /\ scalartype \in ScalarTypes
  /\ dev \in TuneDevices
  /\ rounds_config = RoundsConfig
  /\ k = 0
  /\ timings = {}
  /\ fastest_firsts = << >>
  /\ pos = 0
  /\ seeds = << >>
  /\ benchmarked = << >>
  /\ benchmarked_prev = << >>
  /\ failed = {}
  /\ min_time = 0
  /\ IdleButTune

\* the head of the loop body: the table is cleared, the operands are allocated
\* and filled, and benchmark is entered
RoundStart ==
  /\ pc = "round_start"
  /\ timings' = timings_clear(timings)
  /\ pos' = 0
  /\ seeds' = fastest_firsts
  /\ benchmarked' = << >>
  /\ benchmarked_prev' = benchmarked
  /\ failed' = {}
  /\ min_time' = 0
  /\ pc' = "benchmark"
  /\ UNCHANGED << scalartype, dev, rounds_config, k, fastest_firsts >>
  /\ UNCHANGED notTune

\* design text: benchmark passes over the candidates that fail the validity
\* check, up to the next one that passes it or to the end
BenchmarkSkip ==
  /\ pc = "benchmark"
  /\ pos < NumCands
  /\ CandInvalid(pos)
  /\ pos' = NextValid(pos)
  /\ UNCHANGED << pc, scalartype, dev, rounds_config, k, timings, fastest_firsts,
                  seeds, benchmarked, benchmarked_prev, failed, min_time >>
  /\ UNCHANGED notTune

\* design text: a valid candidate is compiled, launched and timed, and its
\* elapsed time recorded
BenchmarkTimed ==
  /\ pc = "benchmark"
  /\ pos < NumCands
  /\ ~CandInvalid(pos)
  /\ LET cand == CandAt(pos)
     IN  /\ \E t \in Times :
              /\ timings' = timings_insert(timings, t, cand)
              /\ min_time' = IF min_time = 0 \/ t < min_time THEN t ELSE min_time
         /\ benchmarked' = Append(benchmarked, cand)
  /\ pos' = pos + 1
  /\ UNCHANGED << pc, scalartype, dev, rounds_config, k, fastest_firsts,
                  seeds, benchmarked_prev, failed >>
  /\ UNCHANGED notTune

\* design text: the backend rejects the kernel of a valid candidate: the
\* candidate is passed over and nothing is recorded
BenchmarkFail ==
  /\ pc = "benchmark"
  /\ pos < NumCands
  /\ ~CandInvalid(pos)
  /\ LET cand == CandAt(pos)
     IN  /\ failed' = IF failed = {} THEN {cand} ELSE failed
         /\ benchmarked' = Append(benchmarked, cand)
  /\ pos' = pos + 1
  /\ UNCHANGED << pc, scalartype, dev, rounds_config, k, timings, fastest_firsts,
                  seeds, benchmarked_prev, min_time >>
  /\ UNCHANGED notTune

\* benchmark returns; fastest_firsts.clear(), and the loop over the timing
\* table refills the list
Collect ==
  /\ pc = "benchmark"
  /\ pos >= NumCands
  /\ fastest_firsts' =
       keep_loop(map_order(timings), 0, rounds_config[k + 1].n_keep,
                 list_clear(fastest_firsts))
  /\ pc' = "round_end"
  /\ UNCHANGED << scalartype, dev, rounds_config, k, timings, pos,
                  seeds, benchmarked, benchmarked_prev, failed, min_time >>
  /\ UNCHANGED notTune

\* ++it, and the test of the loop over rounds_config
NextRound ==
  /\ pc = "round_end"
  /\ k' = k + 1
  /\ pc' = IF k + 1 < Len(rounds_config) THEN "round_start" ELSE "done"
  /\ UNCHANGED << scalartype, dev, rounds_config, timings, fastest_firsts, pos,
                  seeds, benchmarked, benchmarked_prev, failed, min_time >>
  /\ UNCHANGED notTune

Next ==
  \/ RoundStart
  \/ BenchmarkSkip
  \/ BenchmarkTimed
  \/ BenchmarkFail
  \/ Collect
  \/ NextRound

Spec == Init /\ [][Next]_vars

(***************************************************************************)
(* Properties of the enumeration.                                          *)
(***************************************************************************)
\* C7: round 0's sweep is full-factorial and nested: the n-th configuration
\* visited is the one of nested rank n - 1 (first registered axis outermost),
\* so each combination of axis values is visited exactly once, and the sweep
\* ends after 5*5*5 * 4*4*4 * 3 * 1*1*1 configurations.
FullFactorialSweep ==
  /\ count = Rank(conf) + 1
  /\ conf = ConfAt(count - 1)
  /\ enumDone => count = 5*5*5 * 4*4*4 * 3 * 1*1*1

FullFactorialSweepWitness ==
  /\ enumDone
  /\ conf["ml"] = 256 /\ conf["ns"] = 16 /\ conf["vector"] = 4

\* C8: every step of an axis with the doubling step starts from a value within
\* the axis' bounds and returns a strictly greater one, so each axis runs past
\* its max after finitely many steps ("unroll", 1..1, after one); and the
\* enumeration as a whole ends: it never visits more configurations than the
\* axes span.
DoublingIncreasesAndEnds ==
  /\ \A j \in 1..Len(stepped) :
       tuning_params[stepped[j][1]].inc = "mul_by_two"
         => /\ stepped[j][3] > stepped[j][2]
            /\ stepped[j][2] >= tuning_params[stepped[j][1]].min
            /\ stepped[j][2] <= tuning_params[stepped[j][1]].max
  /\ count <= 5*5*5 * 4*4*4 * 3

DoublingWitness ==
  /\ enumDone
  /\ \E j \in 1..Len(stepped) :
       /\ stepped[j][1] = AxisOf("unroll")
       /\ stepped[j][2] = 1 /\ stepped[j][3] = 2

(***************************************************************************)
(* Properties of the validity predicate.                                   *)
(***************************************************************************)
\* the staged local memory and the work-group size written out on the
\* registered parameter values
ParamsLocalMem(ps, st) ==
  ( (IF ps["lhs_storage"] # 0 THEN ps["ml"] * ps["kl"] ELSE 0)
  + (IF ps["rhs_storage"] # 0 THEN ps["kl"] * ps["nl"] ELSE 0) ) * SizeOf(st)

ParamsWorkGroup(ps) == (ps["ml"] \div ps["ms"]) * (ps["nl"] \div ps["ns"])

\* C9: is_invalid is true whenever the staged local memory exceeds the
\* device's local memory, or the work-group size exceeds the device's maximum,
\* or a tile dimension is not a multiple of its sub-tile dimension; and it is
\* true of ml = kl = nl = 256 with both operands staged, 4-byte elements and
\* 16 KB of local memory.
InvalidWhenOverLimits ==
  probed =>
    /\ ( \/ ParamsLocalMem(probe_params, probe_scalartype) > probe_dev.local_mem_size
         \/ ParamsWorkGroup(probe_params) > probe_dev.max_work_group_size
         \/ probe_params["ml"] % probe_params["ms"] # 0
         \/ probe_params["kl"] % probe_params["ks"] # 0
         \/ probe_params["nl"] % probe_params["ns"] # 0 )
       => probe_result = TRUE
    /\ ( /\ probe_params["ml"] = 256 /\ probe_params["kl"] = 256
         /\ probe_params["nl"] = 256
         /\ probe_params["lhs_storage"] = 1 /\ probe_params["rhs_storage"] = 1
         /\ probe_scalartype = "float"
         /\ probe_dev.local_mem_size = 16384 )
       => probe_result = TRUE

InvalidWhenOverLimitsWitness ==
  /\ probed /\ probe_result = TRUE
  /\ probe_params["ml"] = 256 /\ probe_params["kl"] = 256 /\ probe_params["nl"] = 256
  /\ probe_params["lhs_storage"] = 1 /\ probe_params["rhs_storage"] = 1
  /\ probe_params["ms"] = 16 /\ probe_params["ks"] = 2 /\ probe_params["ns"] = 16
  /\ probe_scalartype = "float"
  /\ probe_dev = [local_mem_size |-> 16384, max_work_group_size |-> 256]

\* C10: a profile that is_invalid accepts stages no more local memory than the
\* device has and asks for no larger a work-group than the device allows.
ValidFitsDevice ==
  (probed /\ probe_result = FALSE) =>
    /\ local_mem_usage(create_profile(probe_params), SizeOf(probe_scalartype))
         <= probe_dev.local_mem_size
    /\ work_group_size(create_profile(probe_params))
         <= probe_dev.max_work_group_size

ValidFitsDeviceWitness ==
  /\ probed /\ probe_result = FALSE
  /\ local_mem_usage(create_profile(probe_params), SizeOf(probe_scalartype))
       = probe_dev.local_mem_size
  /\ work_group_size(create_profile(probe_params)) > 1

(***************************************************************************)
(* Properties of run_autotune.                                             *)
(***************************************************************************)
\* the values each registered axis takes
AxisValueSet ==
  [name \in ParamNames |-> Range(AxisValues[AxisOf(name)])]

\* whether a profile is one of the registered space
InSpace(prof) ==
  /\ \A name \in {"ml", "kl", "nl", "ms", "ks", "ns", "unroll"} :
       prof[name] \in AxisValueSet[name]
  /\ prof.vectorization \in AxisValueSet["vector"]
  /\ (IF prof.use_LHS_shared THEN 1 ELSE 0) \in AxisValueSet["lhs_storage"]
  /\ (IF prof.use_RHS_shared THEN 1 ELSE 0) \in AxisValueSet["rhs_storage"]

\* the elapsed time the table holds for a profile
TimeOf(prof) == (CHOOSE e \in timings : e.profile = prof).time

Timed == {e.profile : e \in timings}

\* C1: round 0 benchmarks profiles of the enumerated configuration; every later
\* round benchmarks the list retained by the round before, in its order and
\* nothing else, so its candidates are among those of the round before.
SeededRounds ==
  /\ (k = 0 /\ pc # "round_start")
       => \A i \in 1..Len(benchmarked) : InSpace(benchmarked[i])
  /\ (k >= 1 /\ pc = "benchmark")
       => /\ Len(benchmarked) <= Len(seeds)
          /\ \A i \in 1..Len(benchmarked) : benchmarked[i] = seeds[i]
  /\ (k >= 1 /\ pc = "round_end")
       => benchmarked = seeds
  /\ (k >= 1 /\ pc # "round_start")
       => Range(benchmarked) \subseteq Range(benchmarked_prev)

SeededRoundsWitness ==
  /\ k = 1 /\ pc = "round_end"
  /\ Len(seeds) = 2 /\ benchmarked = seeds
  /\ Len(benchmarked_prev) > 2

\* C2: at the end of a round the retained profiles are entries of the timing
\* table, in ascending order of their times, and no entry left out has a
\* smaller time than a retained one.
RetainedIsPrefix ==
  pc = "round_end" =>
    /\ \A i \in 1..Len(fastest_firsts) : fastest_firsts[i] \in Timed
    /\ \A i, j \in 1..Len(fastest_firsts) :
         i < j => TimeOf(fastest_firsts[i]) < TimeOf(fastest_firsts[j])
    /\ \A e \in timings :
         e.profile \notin Range(fastest_firsts)
           => \A i \in 1..Len(fastest_firsts) : TimeOf(fastest_firsts[i]) <= e.time

RetainedIsPrefixWitness ==
  /\ pc = "round_end"
  /\ Len(fastest_firsts) >= 2
  /\ Cardinality(timings) > Len(fastest_firsts)

\* C3 (as claimed): at the end of a round at most keep_count profiles are
\* retained.
RetainedAtMostKeep ==
  pc = "round_end" => Len(fastest_firsts) <= rounds_config[k + 1].n_keep

\* C4: a candidate whose compilation or launch failed is not in the round's
\* timing table; when benchmark returns every candidate that passes the
\* validity check has been evaluated, the failed one and those after it
\* included; and run_autotune ends only after its last round.
FailureIsSkipped ==
  /\ \A prof \in failed : prof \notin Timed
  /\ (k = 0 /\ pc = "round_end")
       => Len(benchmarked) = Cardinality(ValidPos[dev][scalartype])
  /\ (k >= 1 /\ pc = "round_end")
       => Len(benchmarked) =
            Cardinality({i \in 1..Len(seeds) :
                           ~profile_is_invalid(seeds[i], dev, SizeOf(scalartype))})
  /\ pc = "done" => k = NumRounds

FailureIsSkippedWitness ==
  /\ pc = "done"
  /\ \E i, j \in 1..Len(benchmarked) :
       /\ i < j
       /\ benchmarked[i] \in failed
       /\ benchmarked[j] \in Timed

\* C5: no profile that is invalid for the selected device and scalar type is
\* in the timing table or in the retained list.
NoInvalidTimed ==
  /\ \A e \in timings : ~profile_is_invalid(e.profile, dev, SizeOf(scalartype))
  /\ \A i \in 1..Len(fastest_firsts) :
       ~profile_is_invalid(fastest_firsts[i], dev, SizeOf(scalartype))

NoInvalidTimedWitness ==
  /\ k = 0 /\ pc = "benchmark"
  /\ pos > 0
  /\ profile_is_invalid(create_profile(ConfAt(0)), dev, SizeOf(scalartype))
  /\ timings # {}

ValidOrder ==
  [d \in TuneDevices |->
     [st \in ScalarTypes |->
        LET Valid(i) == i \in ValidPos[d][st]
            order == SelectSeq([n \in 1..NumConfs |-> n - 1], Valid)
        IN  [n \in 1..Len(order) |-> create_profile(ConfAt(order[n]))]]]

\* the run in which the backend reports the elapsed time 1 for every candidate:
\* the list it retains at the end of each round (round 0 first)
UnitTimeRun ==
  [d \in TuneDevices |->
     [st \in ScalarTypes |->
        LET retained[r \in 0..(NumRounds - 1)] ==
              LET cands == IF r = 0 THEN ValidOrder[d][st] ELSE retained[r - 1]
                  table[n \in 0..Len(cands)] ==
                    IF n = 0 THEN {}
                    ELSE timings_insert(table[n - 1], 1, cands[n])
              IN  keep_loop(map_order(table[Len(cands)]), 0,
                            RoundsConfig[r + 1].n_keep, << >>)
        IN  retained]]

EveryTimedCandidateKept ==
  (pc = "round_end" /\ failed = {})
    => /\ \A i \in 1..Len(benchmarked) :
            \E e \in timings : e.profile = benchmarked[i]
       /\ Cardinality(timings) = Len(benchmarked)

\* C16: the timing table is empty when the first candidate of a round is
\* evaluated; what it holds afterwards was measured in this round: each entry
\* is of a candidate evaluated in the round, there are no more entries than
\* candidates evaluated, the smallest key is the smallest time measured in the
\* round, and the profiles retained are candidates of the round.
FreshTable ==
  /\ (pc = "benchmark" /\ benchmarked = << >>) => timings = {}
  /\ pc \in {"benchmark", "round_end"}
       => /\ \A e \in timings : e.profile \in Range(benchmarked)
          /\ Cardinality(timings) <= Len(benchmarked)
          /\ timings # {} => Min({e.time : e \in timings}) = min_time
  /\ pc = "round_end" => Range(fastest_firsts) \subseteq Range(benchmarked)

FreshTableWitness ==
  /\ k = 1 /\ pc = "benchmark"
  /\ benchmarked = << >> /\ timings = {}
  /\ Len(seeds) = 2
  /\ Len(benchmarked_prev) > 2

MaxCalls == 4

compound(lhs, assignment, code, symbols) ==
  [kind |-> "compound", lhs |-> lhs, assignment |-> assignment, code |-> code,
   symbols |-> symbols, bound |-> "", body |-> << >>]

repeater(bound, body) ==
  [kind |-> "repeater", lhs |-> "none", assignment |-> FALSE, code |-> "",
   symbols |-> << >>, bound |-> bound, body |-> body]

\* the expression lists value() is instantiated on
ExpressionsLists ==
  LET x_y == compound("vector", TRUE, "x_val = y_val",
                      << [name |-> "x", type |-> "vector"],
                         [name |-> "y", type |-> "vector"] >>)
      y_x == compound("vector", TRUE, "y_val = x_val + y_val",
                      << [name |-> "y", type |-> "vector"],
                         [name |-> "x", type |-> "vector"] >>)
      s_t == compound("gpu_scalar", TRUE, "s_val = t_val",
                      << [name |-> "s", type |-> "gpu_scalar"],
                         [name |-> "t", type |-> "gpu_scalar"] >>)
      x_s == compound("vector", FALSE, "x_val * s_val",
                      << [name |-> "x", type |-> "vector"],
                         [name |-> "s", type |-> "gpu_scalar"] >>)
  IN  << << x_y >>,
         << s_t, x_s >>,
         << repeater("N", << x_y >>) >>,
         << repeater("N", << repeater("M", << x_y, s_t >>), y_x >>),
            repeater("K", << y_x >>) >>,
         << x_y, x_y, s_t >> >>

\* is_vector_assignment<T>::value
is_vector_assignment(T) ==
  IF T.kind = "repeater" THEN TRUE ELSE T.assignment /\ T.lhs = "vector"

\* is_scalar_assignment<T>::value
is_scalar_assignment(T) ==
  IF T.kind = "repeater" THEN FALSE ELSE T.assignment /\ T.lhs = "gpu_scalar"

\* Pred<Tree>::value for the predicate a template is instantiated with
Pred(pred, T) ==
  IF pred = "is_vector_assignment" THEN is_vector_assignment(T)
  ELSE is_scalar_assignment(T)

\* design text: tree_utils::count_if, the number of expressions of a list, the
\* bodies of its repeaters included, that satisfy the predicate
RECURSIVE count_if(_, _)
count_if(TList, pred) ==
  IF TList = << >>
    THEN 0
    ELSE LET T == Head(TList)
         IN  (IF Pred(pred, T) THEN 1 ELSE 0)
             + (IF T.kind = "repeater" THEN count_if(T.body, pred) ELSE 0)
             + count_if(Tail(TList), pred)

\* design text: to_string of an unsigned int, its decimal digits
RECURSIVE to_string(_)
to_string(n) ==
  LET digit == << "0", "1", "2", "3", "4", "5", "6", "7", "8", "9" >>
  IN  IF n < 10 THEN digit[n + 1] ELSE to_string(n \div 10) \o digit[(n % 10) + 1]

\* fill_expression_updates::functor<Tree>::execute and ForEach over a typelist;
\* acc holds generated_code and nested_repeats_counter, both passed by reference
RECURSIVE functor_execute(_, _, _)
RECURSIVE ForEach(_, _, _)
functor_execute(Tree, pred, acc) ==
  IF Tree.kind = "repeater"
    THEN LET repeater_name == "Repeat" \o to_string(acc.counter)
         IN  IF count_if(Tree.body, pred) > 0
               THEN LET opened ==
                          [code |-> acc.code \o "for(int " \o repeater_name
                                      \o " = 0 ; " \o repeater_name \o " < "
                                      \o Tree.bound \o " ; ++" \o repeater_name
                                      \o "){\n",
                           counter |-> acc.counter + 1]
                        inner == ForEach(Tree.body, pred, opened)
                    IN  [code |-> inner.code \o "}\n", counter |-> inner.counter]
               ELSE acc
    ELSE IF Pred(pred, Tree)
           THEN [code |-> acc.code \o Tree.code \o ";\n", counter |-> acc.counter]
           ELSE acc

ForEach(TList, pred, acc) ==
  IF TList = << >>
    THEN acc
    ELSE ForEach(Tail(TList), pred, functor_execute(Head(TList), pred, acc))

\* a mutation of execute: the counter is a static, keeping its value from the
\* call before
dummy_static(previous) == previous

\* unsigned int dummy=0; the counter execute starts from, whatever value the
\* counter of the call before ended with
dummy_init(previous) == 0

\* fill_expression_updates<TList,Pred>::execute(generated_code)
fill_expression_updates(TList, pred, generated_code, previous) ==
  ForEach(TList, pred, [code |-> generated_code, counter |-> dummy_init(previous)])

\* design text: typelist_utils::no_duplicates, the first occurrence of each type
RECURSIVE no_duplicates(_)
no_duplicates(TList) ==
  IF TList = << >>
    THEN << >>
    ELSE LET front == no_duplicates(SubSeq(TList, 1, Len(TList) - 1))
             last  == TList[Len(TList)]
         IN  IF \E i \in 1..Len(front) : front[i] = last
               THEN front
               ELSE Append(front, last)

\* design text: the operand symbols of the expressions of a list, in order, the
\* bodies of its repeaters included; left_only keeps the left-hand sides of the
\* assignments only (get_operations_lhs)
RECURSIVE symbols_of(_, _)
symbols_of(TList, left_only) ==
  IF TList = << >>
    THEN << >>
    ELSE LET T == Head(TList)
         IN  (IF T.kind = "repeater" THEN symbols_of(T.body, left_only)
              ELSE IF ~left_only THEN T.symbols
              ELSE IF T.assignment THEN << T.symbols[1] >>
              ELSE << >>)
             \o symbols_of(Tail(TList), left_only)

\* design text: declarations<Pred>::execute and assignements<Pred>::execute: the
\* text T::declarations() or T::assignements() of each distinct symbol of the
\* given types, a text that depends on the symbol's type only
symbol_code(TList, types, left_only, what) ==
  LET syms == no_duplicates(SelectSeq(symbols_of(TList, left_only),
                                      LAMBDA sym : sym.type \in types))
      text[i \in 0..Len(syms)] ==
        IF i = 0 THEN ""
        ELSE text[i - 1] \o what \o "(" \o syms[i].name \o ");\n"
  IN  text[Len(syms)]

\* fill_vector_expression<RequireGidLoop>(Int2Type<false>, res)
fill_vector_expression(TList, RequireGidLoop, res, previous) ==
  LET SymVecs == SelectSeq(symbols_of(RequireGidLoop, FALSE),
                           LAMBDA sym : sym.type = "vector")
      bound == "internal_size(" \o SymVecs[1].name \o ")"
      head == res \o "for(unsigned int gid=get_global_id(0) ; gid < " \o bound
                  \o " ; gid+=get_global_size(0))\n" \o "{\n"
                  \o symbol_code(TList, {"vector", "matrix"}, FALSE, "declarations")
                  \o "\n"
      updates == fill_expression_updates(RequireGidLoop, "is_vector_assignment",
                                         head, previous)
  IN  [code |-> updates.code
                  \o symbol_code(TList, {"vector"}, TRUE, "assignements")
                  \o "}\n",
       counter |-> updates.counter]

\* vector_code_impl(Int2Type<0>): the expressions that need the loop over gid
vector_code_impl(TList, previous) ==
  LET RequireGidLoop ==
        no_duplicates(SelectSeq(TList, LAMBDA T : is_vector_assignment(T)))
  IN  IF RequireGidLoop = << >>
        THEN [code |-> "", counter |-> previous]
        ELSE fill_vector_expression(TList, RequireGidLoop, "", previous)

\* body_code<ExpressionsList>::value(); previous is the value the counter of
\* the call before ended with
body_code_value(TList, previous) ==
  LET opening == "{\n"
                   \o symbol_code(TList, {"gpu_scalar"}, FALSE, "declarations")
      vector_code ==
        IF count_if(TList, "is_vector_assignment") > 0
          THEN vector_code_impl(TList, previous)
          ELSE [code |-> "", counter |-> previous]
      updates ==
        fill_expression_updates(TList, "is_scalar_assignment",
                                opening \o vector_code.code, vector_code.counter)
  IN  [code |-> updates.code
                  \o symbol_code(TList, {"gpu_scalar"}, TRUE, "assignements")
                  \o "}\n",
       counter |-> updates.counter]

InitEmit ==
  /\ emit_calls = 0
  /\ emit_expr = 0
  /\ emit_out = ""
  /\ emit_first = [e \in 1..Len(ExpressionsLists) |-> ""]
  /\ dummy = 0
  /\ IdleButEmit

\* one call of value() on one of the expression lists
EmitValue ==
  /\ emit_calls < MaxCalls
  /\ \E e \in 1..Len(ExpressionsLists) :
       LET r == body_code_value(ExpressionsLists[e], dummy)
       IN  /\ emit_expr' = e
           /\ emit_out' = r.code
           /\ dummy' = r.counter
           /\ emit_first' = IF emit_first[e] = ""
                              THEN [emit_first EXCEPT ![e] = r.code]
                              ELSE emit_first
  /\ emit_calls' = emit_calls + 1
  /\ UNCHANGED notEmit

NextEmit == EmitValue

SpecEmit == InitEmit /\ [][NextEmit]_vars

\* C11: the text a call of value() returns for an expression list is the text
\* the first call for that list returned, whatever was emitted in between.
EmissionIdempotent ==
  emit_calls > 0 => emit_out = emit_first[emit_expr]

EmissionIdempotentWitness ==
  /\ emit_calls >= 3
  /\ emit_expr = 4
  /\ emit_first[3] # ""
  /\ dummy = 2
  /\ emit_out = emit_first[4]

(***************************************************************************)
(* main of examples/autotuner/blas3.cpp, and the statements of the call    *)
(* of run_autotune it makes. An argument is the sequence of its            *)
(* characters. The device completes the operations handed to it on its     *)
(* own; viennacl::backend::finish() returns when none is left.             *)
(***************************************************************************)
\* the largest number of candidates one call of benchmark evaluates
MaxCands == 2

ProgramName == << "b", "l", "a", "s", "3" >>
FloatName == << "f", "l", "o", "a", "t" >>
DoubleName == << "d", "o", "u", "b", "l", "e" >>

\* the arguments main is started with: device indices, layouts (in and out
\* of 0..3, not a number, negative, a number followed by a letter) and
\* scalar types
ScalarArgs == { FloatName, DoubleName, << "h", "a", "l", "f" >> }
ArgVectors ==
  LET DeviceArgs == { << "0" >>, << "1" >>, << "7" >> }
      LayoutArgs == { << "0" >>, << "1" >>, << "2" >>, << "3" >>, << "4" >>,
                      << "x" >>, << "-", "1" >>, << "2", "x" >> }
  IN  { << ProgramName >> }
      \cup { << ProgramName, d >> : d \in DeviceArgs }
      \cup { << ProgramName, d, l >> : d \in DeviceArgs, l \in LayoutArgs }
      \cup { << ProgramName, d, l, t >> :
               d \in DeviceArgs, l \in LayoutArgs, t \in ScalarArgs }
      \cup { << ProgramName, d, l, t, FloatName >> :
               d \in DeviceArgs, l \in LayoutArgs, t \in ScalarArgs }

\* the machines: one platform with one device; a platform without devices
\* followed by one with two
PlatformLists == { << 1 >>, << 0, 2 >> }

\* atoi: an optional sign, then the decimal digits up to the first character
\* that is none. The result is assigned to an unsigned int; the model keeps
\* the signed value, which like the wrapped one equals no case label of the
\* switch and no device index.
atoi(str) ==
  LET digits == << "0", "1", "2", "3", "4", "5", "6", "7", "8", "9" >>
      value(c) == (CHOOSE d \in 1..10 : digits[d] = c) - 1
      is_digit(c) == \E d \in 1..10 : digits[d] = c
      signed == str # << >> /\ str[1] \in {"-", "+"}
      rest == IF signed THEN Tail(str) ELSE str
      n == CHOOSE i \in 0..Len(rest) :
             /\ \A j \in 1..i : is_digit(rest[j])
             /\ (i < Len(rest) => ~is_digit(rest[i + 1]))
      number[i \in 0..n] ==
        IF i = 0 THEN 0 ELSE number[i - 1] * 10 + value(rest[i])
  IN  IF signed /\ str[1] = "-" THEN 0 - number[n] ELSE number[n]

\* a mutation of the switch: the cases 1 and 2 exchanged
switch_layout_swapped(l) ==
  IF l = 0 THEN [found |-> TRUE, step |-> "AA",
                 is_lhs_trans |-> FALSE, is_rhs_trans |-> FALSE]
  ELSE IF l = 1 THEN [found |-> TRUE, step |-> "TA",
                      is_lhs_trans |-> FALSE, is_rhs_trans |-> TRUE]
  ELSE IF l = 2 THEN [found |-> TRUE, step |-> "AT",
                      is_lhs_trans |-> TRUE, is_rhs_trans |-> FALSE]
  ELSE IF l = 3 THEN [found |-> TRUE, step |-> "TT",
                      is_lhs_trans |-> TRUE, is_rhs_trans |-> TRUE]
  ELSE [found |-> FALSE, step |-> "",
        is_lhs_trans |-> FALSE, is_rhs_trans |-> FALSE]

\* switch(layout): the case taken, the step it prints and the arguments it
\* calls run_autotune with
switch_layout(l) ==
  IF l = 0 THEN [found |-> TRUE, step |-> "AA",
                 is_lhs_trans |-> FALSE, is_rhs_trans |-> FALSE]
  ELSE IF l = 1 THEN [found |-> TRUE, step |-> "TA",
                      is_lhs_trans |-> TRUE, is_rhs_trans |-> FALSE]
  ELSE IF l = 2 THEN [found |-> TRUE, step |-> "AT",
                      is_lhs_trans |-> FALSE, is_rhs_trans |-> TRUE]
  ELSE IF l = 3 THEN [found |-> TRUE, step |-> "TT",
                      is_lhs_trans |-> TRUE, is_rhs_trans |-> TRUE]
  ELSE [found |-> FALSE, step |-> "",
        is_lhs_trans |-> FALSE, is_rhs_trans |-> FALSE]

\* if(scalartype=="float") ... else if(scalartype=="double") ...: the
\* instantiation of run_autotune called, "" when neither
instantiation(name) ==
  IF name = FloatName THEN "float"
  ELSE IF name = DoubleName THEN "double"
  ELSE ""

\* the call of benchmark made in round `round`: the expression assigned to A,
\* the tag paired with sizeof(NumericT), and the candidates
benchmark_call(round, is_lhs_trans, is_rhs_trans) ==
  [round |-> round,
   lhs |-> IF is_lhs_trans THEN "trans(B)" ELSE "B",
   rhs |-> IF is_rhs_trans THEN "trans(C)" ELSE "C",
   tag |-> IF is_lhs_trans
             THEN (IF is_rhs_trans THEN "gemmTT" ELSE "gemmTA")
             ELSE (IF is_rhs_trans THEN "gemmAT" ELSE "gemmAA"),
   source |-> benchmark_source(round)]

\* a mutation of finish: it returns at once
finish_at_once(pending) == TRUE

\* viennacl::backend::finish() returns once the device has nothing left to do
finish(pending) == pending.transfers = 0 /\ pending.kernels = 0

InitMain ==
  /\ argv \in ArgVectors
  /\ platforms \in PlatformLists
  /\ main_pc = "start"
  /\ requested_device = 0
  /\ layout = 0
  /\ arg_scalartype = << >>
  /\ platform_k = 0
  /\ device_it = 0
  /\ current_device = 0
  /\ err_out = ""
  /\ platforms_queried = FALSE
  /\ exit_code = -1
  /\ ra_pc = "idle"
  /\ ra_args = << >>
  /\ ra_k = 0
  /\ in_flight = [transfers |-> 0, kernels |-> 0]
  /\ cands_left = 0
  /\ built = 0
  /\ bench_calls = << >>
  /\ IdleButMain

\* if(argc<3){ std::cerr << "USAGE ..."; exit(1); }
MainCheckArgs ==
  /\ main_pc = "start"
  /\ IF Len(argv) < 3
       THEN /\ err_out' = "USAGE : PROGRAM_NAME DEVICE LAYOUT SCALARTYPE"
            /\ exit_code' = 1
            /\ main_pc' = "exited"
       ELSE /\ main_pc' = "parse"
            /\ UNCHANGED << err_out, exit_code >>
  /\ UNCHANGED << argv, platforms, requested_device, layout, arg_scalartype,
                  platform_k, device_it, current_device, platforms_queried,
                  ra_pc, ra_args, ra_k, in_flight, cands_left, built, bench_calls >>
  /\ UNCHANGED notMain

\* requested_device = atoi(args[1]), layout = atoi(args[2]),
\* scalartype = args[3]. With argc = 3 the vector has no element 3: the read
\* is out of its bounds, and the process is killed or goes on with whatever
\* string the read produced.
MainParse ==
  /\ main_pc = "parse"
  /\ requested_device' = atoi(argv[2])
  /\ layout' = atoi(argv[3])
  /\ IF Len(argv) >= 4
       THEN /\ arg_scalartype' = argv[4]
            /\ main_pc' = "platforms"
            /\ UNCHANGED exit_code
       ELSE \/ /\ arg_scalartype' \in ScalarArgs \cup { << >> }
               /\ main_pc' = "platforms"
               /\ UNCHANGED exit_code
            \/ /\ arg_scalartype' = << >>
               /\ main_pc' = "exited"
               /\ exit_code' = 139
  /\ UNCHANGED << argv, platforms, platform_k, device_it, current_device, err_out,
                  platforms_queried, ra_pc, ra_args, ra_k, in_flight, cands_left,
                  built, bench_calls >>
  /\ UNCHANGED notMain

\* platforms = get_platforms(); the loop over the platforms starts at k = 0
MainPlatforms ==
  /\ main_pc = "platforms"
  /\ platforms_queried' = TRUE
  /\ platform_k' = 0
  /\ main_pc' = "platform_loop"
  /\ UNCHANGED << argv, platforms, requested_device, layout, arg_scalartype,
                  device_it, current_device, err_out, exit_code,
                  ra_pc, ra_args, ra_k, in_flight, cands_left, built, bench_calls >>
  /\ UNCHANGED notMain

\* the test of the loop over the platforms: the devices of platform k are
\* fetched, or main runs off its end and the process exits with 0
MainPlatformLoop ==
  /\ main_pc = "platform_loop"
  /\ IF platform_k < Len(platforms)
       THEN /\ device_it' = 0
            /\ main_pc' = "device_loop"
            /\ UNCHANGED exit_code
       ELSE /\ exit_code' = 0
            /\ main_pc' = "exited"
            /\ UNCHANGED device_it
  /\ UNCHANGED << argv, platforms, requested_device, layout, arg_scalartype,
                  platform_k, current_device, err_out, platforms_queried,
                  ra_pc, ra_args, ra_k, in_flight, cands_left, built, bench_calls >>
  /\ UNCHANGED notMain

\* the loop over the devices of a platform: if(current_device++ ==
\* requested_device) the device is selected; ++it; after the last device, ++k
MainDeviceLoop ==
  /\ main_pc = "device_loop"
  /\ IF device_it < platforms[platform_k + 1]
       THEN /\ current_device' = current_device + 1
            /\ IF current_device = requested_device
                 THEN /\ main_pc' = "switch"
                      /\ UNCHANGED device_it
                 ELSE /\ device_it' = device_it + 1
                      /\ UNCHANGED main_pc
            /\ UNCHANGED platform_k
       ELSE /\ platform_k' = platform_k + 1
            /\ main_pc' = "platform_loop"
            /\ UNCHANGED << device_it, current_device >>
  /\ UNCHANGED << argv, platforms, requested_device, layout, arg_scalartype,
                  err_out, platforms_queried, exit_code,
                  ra_pc, ra_args, ra_k, in_flight, cands_left, built, bench_calls >>
  /\ UNCHANGED notMain

\* switch(layout): run_autotune<float> or run_autotune<double> is called with
\* the arguments of the case taken; with no case taken, or a scalar type that
\* is neither, nothing is called
MainSwitch ==
  /\ main_pc = "switch"
  /\ LET case == switch_layout(layout)
         T == instantiation(arg_scalartype)
     IN  IF case.found /\ T # ""
           THEN /\ ra_args' = [T |-> T, step |-> case.step,
                               is_lhs_trans |-> case.is_lhs_trans,
                               is_rhs_trans |-> case.is_rhs_trans]
                /\ ra_pc' = "loop_test"
                /\ ra_k' = 0
                /\ main_pc' = "run_autotune"
           ELSE /\ main_pc' = "exit"
                /\ UNCHANGED << ra_args, ra_pc, ra_k >>
  /\ UNCHANGED << argv, platforms, requested_device, layout, arg_scalartype,
                  platform_k, device_it, current_device, err_out,
                  platforms_queried, exit_code, in_flight, cands_left, built,
                  bench_calls >>
  /\ UNCHANGED notMain

\* exit(0) after the switch
MainExit ==
  /\ main_pc = "exit"
  /\ exit_code' = 0
  /\ main_pc' = "exited"
  /\ UNCHANGED << argv, platforms, requested_device, layout, arg_scalartype,
                  platform_k, device_it, current_device, err_out,
                  platforms_queried, ra_pc, ra_args, ra_k, in_flight, cands_left,
                  built, bench_calls >>
  /\ UNCHANGED notMain

\* what the statements of run_autotune leave alone
mainLocals == << argv, platforms, requested_device, layout, arg_scalartype,
                 platform_k, device_it, current_device, err_out,
                 platforms_queried, exit_code >>

\* the test of the loop over rounds_config; past the last round run_autotune
\* returns to main
RunLoopTest ==
  /\ main_pc = "run_autotune" /\ ra_pc = "loop_test"
  /\ IF ra_k < NumRounds
       THEN /\ ra_pc' = "fill_matrix"
            /\ UNCHANGED main_pc
       ELSE /\ ra_pc' = "returned"
            /\ main_pc' = "exit"
  /\ UNCHANGED << ra_args, ra_k, in_flight, cands_left, built, bench_calls >>
  /\ UNCHANGED mainLocals
  /\ UNCHANGED notMain

\* timings.clear(), the three matrices, and fill_matrix up to its three
\* viennacl::copy: three transfers are handed to the device
RunFillMatrix ==
  /\ main_pc = "run_autotune" /\ ra_pc = "fill_matrix"
  /\ in_flight' = [in_flight EXCEPT !.transfers = @ + 3]
  /\ ra_pc' = "fill_finish"
  /\ UNCHANGED << main_pc, ra_args, ra_k, cands_left, built, bench_calls >>
  /\ UNCHANGED mainLocals
  /\ UNCHANGED notMain

\* viennacl::backend::finish() at the end of fill_matrix
RunFillFinish ==
  /\ main_pc = "run_autotune" /\ ra_pc = "fill_finish"
  /\ finish(in_flight)
  /\ ra_pc' = "finish"
  /\ UNCHANGED << main_pc, ra_args, ra_k, in_flight, cands_left, built, bench_calls >>
  /\ UNCHANGED mainLocals
  /\ UNCHANGED notMain

\* viennacl::backend::finish() after the symbolic matrices are built
RunFinish ==
  /\ main_pc = "run_autotune" /\ ra_pc = "finish"
  /\ finish(in_flight)
  /\ ra_pc' = "dispatch"
  /\ UNCHANGED << main_pc, ra_args, ra_k, in_flight, cands_left, built, bench_calls >>
  /\ UNCHANGED mainLocals
  /\ UNCHANGED notMain

\* if(k==0) ... else ...: benchmark is called with the expression and the tag
\* of the two flags; it has some number of candidates to evaluate
RunDispatch ==
  /\ main_pc = "run_autotune" /\ ra_pc = "dispatch"
  /\ bench_calls' = Append(bench_calls,
                           benchmark_call(ra_k, ra_args.is_lhs_trans,
                                          ra_args.is_rhs_trans))
  /\ cands_left' \in 0..MaxCands
  /\ ra_pc' = "benchmark"
  /\ UNCHANGED << main_pc, ra_args, ra_k, in_flight, built >>
  /\ UNCHANGED mainLocals
  /\ UNCHANGED notMain

\* design text: benchmark launches the kernel of the next candidate
RunLaunch ==
  /\ main_pc = "run_autotune" /\ ra_pc = "benchmark"
  /\ cands_left > 0
  /\ in_flight' = [in_flight EXCEPT !.kernels = @ + 1]
  /\ ra_pc' = "wait"
  /\ UNCHANGED << main_pc, ra_args, ra_k, cands_left, built, bench_calls >>
  /\ UNCHANGED mainLocals
  /\ UNCHANGED notMain

\* design text: benchmark waits for the device, then records the elapsed time
RunWait ==
  /\ main_pc = "run_autotune" /\ ra_pc = "wait"
  /\ finish(in_flight)
  /\ cands_left' = cands_left - 1
  /\ ra_pc' = "benchmark"
  /\ UNCHANGED << main_pc, ra_args, ra_k, in_flight, built, bench_calls >>
  /\ UNCHANGED mainLocals
  /\ UNCHANGED notMain

\* benchmark returns; fastest_firsts.clear()
RunBenchmarkReturn ==
  /\ main_pc = "run_autotune" /\ ra_pc = "benchmark"
  /\ cands_left = 0
  /\ ra_pc' = "finish_after"
  /\ UNCHANGED << main_pc, ra_args, ra_k, in_flight, cands_left, built, bench_calls >>
  /\ UNCHANGED mainLocals
  /\ UNCHANGED notMain

\* viennacl::backend::finish() before the loop over the timing table
RunFinishAfter ==
  /\ main_pc = "run_autotune" /\ ra_pc = "finish_after"
  /\ finish(in_flight)
  /\ ra_pc' = "keep"
  /\ UNCHANGED << main_pc, ra_args, ra_k, in_flight, cands_left, built, bench_calls >>
  /\ UNCHANGED mainLocals
  /\ UNCHANGED notMain

\* the loop over the timing table builds the retained list; ++it
RunKeep ==
  /\ main_pc = "run_autotune" /\ ra_pc = "keep"
  /\ built' = built + 1
  /\ ra_k' = ra_k + 1
  /\ ra_pc' = "loop_test"
  /\ UNCHANGED << main_pc, ra_args, in_flight, cands_left, bench_calls >>
  /\ UNCHANGED mainLocals
  /\ UNCHANGED notMain

\* the device completes one of the operations handed to it
DeviceComplete ==
  /\ main_pc = "run_autotune"
  /\ \/ /\ in_flight.transfers > 0
        /\ in_flight' = [in_flight EXCEPT !.transfers = @ - 1]
     \/ /\ in_flight.kernels > 0
        /\ in_flight' = [in_flight EXCEPT !.kernels = @ - 1]
  /\ UNCHANGED << main_pc, ra_pc, ra_args, ra_k, cands_left, built, bench_calls >>
  /\ UNCHANGED mainLocals
  /\ UNCHANGED notMain

NextMain ==
  \/ MainCheckArgs
  \/ MainParse
  \/ MainPlatforms
  \/ MainPlatformLoop
  \/ MainDeviceLoop
  \/ MainSwitch
  \/ MainExit
  \/ RunLoopTest
  \/ RunFillMatrix
  \/ RunFillFinish
  \/ RunFinish
  \/ RunDispatch
  \/ RunLaunch
  \/ RunWait
  \/ RunBenchmarkReturn
  \/ RunFinishAfter
  \/ RunKeep
  \/ DeviceComplete

SpecMain == InitMain /\ [][NextMain]_vars

\* C13: the layout selects AA, TA, AT, TT for 0, 1, 2, 3 (TA: only the left
\* operand transposed; AT: only the right one), and each call of benchmark,
\* the one of round 0 on the configuration and those of the later rounds on
\* the retained list, is made with the expression and the tag of that variant.
LayoutSelectsVariant ==
  main_pc \in {"run_autotune", "exit", "exited"} /\ ra_pc # "idle" =>
    /\ layout \in 0..3
    /\ ra_args.step = << "AA", "TA", "AT", "TT" >>[layout + 1]
    /\ ra_args.is_lhs_trans = (layout \in {1, 3})
    /\ ra_args.is_rhs_trans = (layout \in {2, 3})
    /\ \A i \in 1..Len(bench_calls) :
         /\ bench_calls[i].round = i - 1
         /\ bench_calls[i].tag
              = << "gemmAA", "gemmTA", "gemmAT", "gemmTT" >>[layout + 1]
         /\ bench_calls[i].lhs = IF layout \in {1, 3} THEN "trans(B)" ELSE "B"
         /\ bench_calls[i].rhs = IF layout \in {2, 3} THEN "trans(C)" ELSE "C"

LayoutSelectsVariantWitness ==
  /\ main_pc = "exited" /\ exit_code = 0
  /\ layout = 1
  /\ Len(bench_calls) = 2
  /\ bench_calls[1].source = "conf" /\ bench_calls[1].tag = "gemmTA"
  /\ bench_calls[2].source = "fastest_firsts" /\ bench_calls[2].tag = "gemmTA"
  /\ bench_calls[2].lhs = "trans(B)" /\ bench_calls[2].rhs = "C"

\* C14 (as claimed): with fewer than three arguments the process exits with 1
\* before the platforms are queried and before any tuning; and it exits with 0
\* only once run_autotune has gone through all its rounds on the selected
\* device.
ExitCodes ==
  main_pc = "exited" =>
    /\ Len(argv) < 3
         => exit_code = 1 /\ ~platforms_queried /\ bench_calls = << >>
    /\ exit_code = 0
         => ra_pc = "returned" /\ built = NumRounds

\* C15 (as claimed): when the layout argument is none of 0, 1, 2, 3 or the
\* scalar type argument is neither float nor double, the process writes an
\* error, makes no tuning run and exits with a code other than 0.
ConfigurationErrorReported ==
  ( /\ main_pc = "exited"
    /\ Len(argv) >= 4
    /\ \/ argv[3] \notin { << "0" >>, << "1" >>, << "2" >>, << "3" >> }
       \/ argv[4] \notin { FloatName, DoubleName } )
    => /\ err_out # ""
       /\ exit_code # 0
       /\ bench_calls = << >>

\* the indices at which main has read args so far: none before the statements
\* of lines 159-161 (and none at all when the count check exits), then 1, 2
\* and 3
ArgsRead ==
  IF main_pc \in {"idle", "start", "parse"} \/ Len(argv) < 3
    THEN {}
    ELSE {1, 2, 3}

\* C22 (as claimed): every index at which main reads the argument vector is
\* smaller than argc.
ArgsReadInBounds == \A idx \in ArgsRead : idx < Len(argv)

\* C17: while benchmark evaluates the candidates of a round, the retained
\* lists of all the rounds before are built and benchmark has been called once
\* per round so far; the device has completed the transfers of the operands
\* when benchmark is called, and has nothing left to do when the timing table
\* is read; and never more than one kernel is on the device.
HardBarrier ==
  /\ ra_pc \in {"benchmark", "wait"}
       => built = ra_k /\ Len(bench_calls) = ra_k + 1
  /\ ra_pc \in {"dispatch", "benchmark", "wait", "finish_after", "keep"}
       => in_flight.transfers = 0
  /\ ra_pc = "keep" => in_flight = [transfers |-> 0, kernels |-> 0]
  /\ in_flight.kernels <= 1

HardBarrierWitness ==
  /\ ra_k = 1 /\ ra_pc = "wait"
  /\ built = 1
  /\ in_flight.kernels = 1
  /\ cands_left = 2

\* ---------------------------------------------------------------------------
\* ILUT: precondition(A, output, tag) of viennacl/linalg/detail/ilu/ilut.hpp
\* ---------------------------------------------------------------------------

\* size1(A), and the largest entries_per_row of the tags tried
MatrixSize == 3
MaxEntriesPerRow == 1

\* NumericT is modelled by exact fractions << numerator, denominator >> in
\* lowest terms with a positive denominator (rounding is not modelled); the
\* denominator 0 stands for what a division by zero yields (an infinity, or
\* NaN: << 0, 0 >>). A std::map<SizeT, NumericT> is a function whose domain
\* is its set of keys.
RECURSIVE gcd(_, _)
gcd(a, b) == IF b = 0 THEN a ELSE gcd(b, a % b)

fraction(n, d) ==
  LET s == IF d < 0 THEN -1 ELSE 1
      an == IF n < 0 THEN -n ELSE n
      g == gcd(an, s * d)
  IN  IF d = 0 THEN << IF n < 0 THEN -1 ELSE IF n > 0 THEN 1 ELSE 0, 0 >>
      ELSE << (s * n) \div g, (s * d) \div g >>

zero == << 0, 1 >>
times(a, b) == fraction(a[1] * b[1], a[2] * b[2])
minus(a, b) == fraction(a[1] * b[2] - b[1] * a[2], a[2] * b[2])
divide(a, b) == fraction(a[1] * b[2], a[2] * b[1])
fabs(a) == << IF a[1] < 0 THEN -a[1] ELSE a[1], a[2] >>
less(a, b) == a[1] * b[2] < b[1] * a[2]

\* ilut_arg_tag: the constructor stores both arguments unchecked
DropTolerances == { zero, << 1, 2 >>, << 2, 1 >> }
ilut_tag ==
  [ entries_per_row : 0 .. MaxEntriesPerRow, drop_tolerance : DropTolerances ]

\* the matrices tried: every structurally symmetric sparsity pattern (pairs
\* holds the positions << r, c >>, r < c, stored together with << c, r >>),
\* each diagonal entry being absent, a stored 0 or 1, the other entries
\* -1 - (r - c) below the diagonal and 1 + (c - r) above it
Diagonals == { "absent", "zero", "one" }
InputMatrix(pairs, diagonal) ==
  [r \in 0 .. MatrixSize - 1 |->
     [c \in {x \in 0 .. MatrixSize - 1 :
               \/ x = r /\ diagonal[r] # "absent"
               \/ << x, r >> \in pairs
               \/ << r, x >> \in pairs} |->
        IF c = r THEN (IF diagonal[r] = "zero" THEN zero ELSE << 1, 1 >>)
        ELSE IF c < r THEN << -1 - (r - c), 1 >> ELSE << 1 + (c - r), 1 >>]]

\* setup_w for std::vector< std::map >: w = A[row]; the square of the norm
\* is returned in place of its root
RECURSIVE sum_squares(_, _)
sum_squares(row, keys) ==
  IF keys = {} THEN zero
  ELSE LET c == CHOOSE x \in keys : TRUE
       IN  minus(sum_squares(row, keys \ {c}), minus(zero, times(row[c], row[c])))

setup_w(A, row) == [w |-> A[row], row_norm2 |-> sum_squares(A[row], DOMAIN A[row])]

\* std::fabs(x) > tau_i with tau_i = drop_tolerance * sqrt(row_norm2), both
\* sides squared (neither is negative)
above_tau(x, tau_i) ==
  less(times(times(tau_i.drop_tolerance, tau_i.drop_tolerance), tau_i.row_norm2),
       times(x, x))

\* a mutation of the test of the pivot: it never finds a zero
is_zero_never(a_kk) == FALSE

\* a_kk <= 0 && a_kk >= 0
is_zero(a_kk) == ~ less(zero, a_kk) /\ ~ less(a_kk, zero)

\* line 3 to line 7: the loop over w in ascending key order, from the first
\* key after last; keys inserted by w[...] -= ... lie after k and are visited
\* too. output[k][k] inserts a zero when row k has no diagonal entry.
RECURSIVE eliminate(_, _, _, _, _)
eliminate(w, output, i, tau_i, last) ==
  LET rest == {c \in DOMAIN w : c > last}
      same == [w |-> w, output |-> output, thrown |-> ""]
  IN  IF rest = {} THEN same
      ELSE
        LET col_k == CHOOSE c \in rest : \A d \in rest : c <= d
            looked == [output EXCEPT ![col_k] =
                         [c \in DOMAIN output[col_k] \cup {col_k} |->
                            IF c \in DOMAIN output[col_k]
                              THEN output[col_k][c] ELSE zero]]
            a_kk == looked[col_k][col_k]
            w_k_entry == divide(w[col_k], a_kk)
            w1 == [w EXCEPT ![col_k] = w_k_entry]
            u_k == {c \in DOMAIN looked[col_k] : c > col_k}
            w2 == IF above_tau(w_k_entry, tau_i)
                    THEN [c \in DOMAIN w1 \cup u_k |->
                            IF c \in u_k
                              THEN minus(IF c \in DOMAIN w1 THEN w1[c] ELSE zero,
                                         times(w_k_entry, looked[col_k][c]))
                              ELSE w1[c]]
                    ELSE w1
        IN  IF col_k >= i THEN same
            ELSE IF is_zero(a_kk)
              THEN [w |-> w, output |-> looked, thrown |-> "ILUT zero diagonal!"]
            ELSE eliminate(w2, looked, i, tau_i, col_k)

\* std::multimap::insert: the new element goes after the elements whose key
\* is not greater than its own
multimap_insert(temp_map, e) ==
  LET n == Cardinality({j \in 1 .. Len(temp_map) : ~ less(e.first, temp_map[j].first)})
  IN  SubSeq(temp_map, 1, n) \o << e >> \o SubSeq(temp_map, n + 1, Len(temp_map))

\* line 10: the entries of w that are kept, sorted by absolute value
RECURSIVE dropping_rule(_, _, _, _, _)
dropping_rule(w, i, tau_i, last, temp_map) ==
  LET rest == {c \in DOMAIN w : c > last}
  IN  IF rest = {} THEN [temp_map |-> temp_map, thrown |-> ""]
      ELSE
        LET col_k == CHOOSE c \in rest : \A d \in rest : c <= d
            abs_w_k == fabs(w[col_k])
        IN  IF above_tau(w[col_k], tau_i) \/ col_k = i
              THEN IF ~ less(zero, abs_w_k)
                     THEN [temp_map |-> temp_map,
                           thrown |-> "Triangular factor in ILUT singular!"]
                     ELSE dropping_rule(w, i, tau_i, col_k,
                            multimap_insert(temp_map,
                              [first |-> abs_w_k, k |-> col_k, value |-> w[col_k]]))
              ELSE dropping_rule(w, i, tau_i, col_k, temp_map)

\* the test made before an entry of L or of U is written
room_le(written, tag) == written <= tag.entries_per_row
room(written, tag) == written < tag.entries_per_row

\* lines 10-12: temp_map is walked from its last element (at) to its first
RECURSIVE write_largest(_, _, _, _, _, _, _)
write_largest(temp_map, at, row_i, i, tag, written_L, written_U) ==
  IF at = 0 THEN row_i
  ELSE
    LET j == temp_map[at].k
        w_j_entry == temp_map[at].value
        put == [c \in DOMAIN row_i \cup {j} |-> IF c = j THEN w_j_entry ELSE row_i[c]]
    IN  IF j < i
          THEN IF room(written_L, tag)
                 THEN write_largest(temp_map, at - 1, put, i, tag, written_L + 1, written_U)
                 ELSE write_largest(temp_map, at - 1, row_i, i, tag, written_L, written_U)
        ELSE IF j = i
          THEN write_largest(temp_map, at - 1, put, i, tag, written_L, written_U)
        ELSE IF room(written_U, tag)
          THEN write_largest(temp_map, at - 1, put, i, tag, written_L, written_U + 1)
          ELSE write_largest(temp_map, at - 1, row_i, i, tag, written_L, written_U)

\* one pass of the loop over the rows (line 1 to line 13)
precondition_row(A, output, tag, i) ==
  LET s == setup_w(A, i)
      tau_i == [drop_tolerance |-> tag.drop_tolerance, row_norm2 |-> s.row_norm2]
      e == eliminate(s.w, output, i, tau_i, -1)
      t == dropping_rule(e.w, i, tau_i, -1, << >>)
  IN  IF e.thrown # "" THEN e
      ELSE IF t.thrown # "" THEN [w |-> e.w, output |-> e.output, thrown |-> t.thrown]
      ELSE [w |-> e.w,
            output |-> [e.output EXCEPT ![i] =
                          write_largest(t.temp_map, Len(t.temp_map), e.output[i],
                                        i, tag, 0, 0)],
            thrown |-> ""]

\* the callers (ilut_precond::init) pass an output of size1(A) empty rows
InitIlut ==
  /\ IdleButIlut
  /\ ilut_pc = "loop"
  /\ \E pairs \in SUBSET {p \in (0 .. MatrixSize - 1) \X (0 .. MatrixSize - 1) :
                           p[1] < p[2]},
        diagonal \in [0 .. MatrixSize - 1 -> Diagonals] :
       ilut_A = InputMatrix(pairs, diagonal)
  /\ ilut_output = [r \in 0 .. MatrixSize - 1 |-> << >>]
  /\ ilut_arg_tag \in ilut_tag
  /\ ilut_i = 0
  /\ ilut_w = << >>

IlutRow ==
  /\ ilut_pc = "loop"
  /\ ilut_i < MatrixSize
  /\ LET r == precondition_row(ilut_A, ilut_output, ilut_arg_tag, ilut_i)
     IN  /\ ilut_output' = r.output
         /\ ilut_w' = [x \in 0 .. ilut_i |-> IF x = ilut_i THEN r.w ELSE ilut_w[x]]
         /\ ilut_pc' = IF r.thrown # "" THEN r.thrown ELSE "loop"
         /\ ilut_i' = IF r.thrown # "" THEN ilut_i ELSE ilut_i + 1
  /\ UNCHANGED << ilut_A, ilut_arg_tag >>
  /\ UNCHANGED notIlut

IlutReturn ==
  /\ ilut_pc = "loop"
  /\ ilut_i = MatrixSize
  /\ ilut_pc' = "returned"
  /\ UNCHANGED << ilut_A, ilut_output, ilut_arg_tag, ilut_i, ilut_w >>
  /\ UNCHANGED notIlut

NextIlut == IlutRow \/ IlutReturn

SpecIlut == InitIlut /\ [][NextIlut]_vars

\* C19: every row of output holds at most entries_per_row entries left of the
\* diagonal and at most entries_per_row entries right of it, and each row
\* that was written holds the diagonal entry of its working row whenever the
\* working row has one, whatever the drop tolerance.
EntriesPerRowKept ==
  /\ \A r \in DOMAIN ilut_output :
       /\ Cardinality({c \in DOMAIN ilut_output[r] : c < r}) <= ilut_arg_tag.entries_per_row
       /\ Cardinality({c \in DOMAIN ilut_output[r] : c > r}) <= ilut_arg_tag.entries_per_row
  /\ \A r \in 0 .. ilut_i - 1 :
       r \in DOMAIN ilut_w[r]
         => /\ r \in DOMAIN ilut_output[r]
            /\ ilut_output[r][r] = ilut_w[r][r]

\* C24: a pass of the row loop that meets a pivot output[k][k], k < i, that is
\* zero or absent ends with "ILUT zero diagonal!": the values output held are
\* all kept (the one entry that may be new is a 0 on the diagonal of row k,
\* left by the lookup of an absent pivot), row i is not written and i does
\* not advance; a pass that ends otherwise found every pivot it needed present
\* and not zero; and no entry of a working row or of output is the quotient of
\* a division by zero.
ZeroPivotThrows ==
  [][ ilut_pc = "loop" /\ ilut_i < MatrixSize =>
        LET now == ilut_i
            w_now == ilut_w'[now]
            needed == {c \in DOMAIN w_now : c < now}
            bad == {c \in needed : c \notin DOMAIN ilut_output[c]
                                     \/ ilut_output[c][c] = zero}
        IN  /\ bad # {} <=> ilut_pc' = "ILUT zero diagonal!"
            /\ ilut_pc' = "ILUT zero diagonal!"
                 => /\ ilut_i' = now
                    /\ DOMAIN ilut_output'[now] = {}
                    /\ \A r \in 0 .. MatrixSize - 1 :
                         /\ \A c \in DOMAIN ilut_output[r] :
                              /\ c \in DOMAIN ilut_output'[r]
                              /\ ilut_output'[r][c] = ilut_output[r][c]
                         /\ \A c \in DOMAIN ilut_output'[r] \ DOMAIN ilut_output[r] :
                              c = r /\ r \in bad /\ ilut_output'[r][c] = zero
            /\ \A c \in DOMAIN w_now : w_now[c][2] > 0
            /\ \A r \in 0 .. MatrixSize - 1 :
                 \A c \in DOMAIN ilut_output'[r] : ilut_output'[r][c][2] > 0
    ]_vars

\* a call that has thrown "ILUT zero diagonal!" at a row after the first, on a
\* pivot that was absent, with entries written in the rows before
ZeroPivotThrowsWitness ==
  /\ ilut_pc = "ILUT zero diagonal!"
  /\ ilut_i = MatrixSize - 1
  /\ \E c \in 0 .. ilut_i - 1 :
       /\ c \in DOMAIN ilut_w[ilut_i]
       /\ c \notin DOMAIN ilut_A[c]
       /\ ilut_output[c][c] = zero
  /\ \E r \in 0 .. ilut_i - 1 : Cardinality(DOMAIN ilut_output[r]) >= 2
  /\ DOMAIN ilut_output[ilut_i] = {}

\* a returned call with entries_per_row = 1 in which the working row of some
\* row held two entries above the threshold right of the diagonal and a
\* diagonal entry that was not above it, and the row was written with one
\* entry right of the diagonal and with its diagonal entry; and the same with
\* two entries left of the diagonal for some row
EntriesPerRowKeptWitness ==
  LET rows == 0 .. MatrixSize - 1
      tau(r) == [drop_tolerance |-> ilut_arg_tag.drop_tolerance,
                 row_norm2 |-> sum_squares(ilut_A[r], DOMAIN ilut_A[r])]
      kept(r) == {c \in DOMAIN ilut_w[r] : above_tau(ilut_w[r][c], tau(r))}
  IN  /\ ilut_pc = "returned"
      /\ ilut_arg_tag.entries_per_row = 1
      /\ \E r \in rows :
           /\ Cardinality({c \in kept(r) : c > r}) >= 2
           /\ Cardinality({c \in DOMAIN ilut_output[r] : c > r}) = 1
           /\ r \in DOMAIN ilut_w[r] \ kept(r)
           /\ r \in DOMAIN ilut_output[r]
      /\ \E r \in rows :
           /\ Cardinality({c \in kept(r) : c < r}) >= 2
           /\ Cardinality({c \in DOMAIN ilut_output[r] : c < r}) = 1

\* ---------------------------------------------------------------------------
\* prod_impl(coordinate_matrix, vector_base, vector_base) and
\* coordinate_matrix_vec_mul_kernel of
\* viennacl/linalg/cuda/sparse_matrix_operations.hpp
\* ---------------------------------------------------------------------------

\* blockDim.x and gridDim.x (128 and 64 in the launch), the largest number of
\* entries of the matrix, and its numbers of rows and of columns
BlockDim == 2
GridDim == 2
MaxEntries == 4
CooRows == 3
CooCols == 2

\* the value a register or a __shared__ slot holds before its first write
Uninitialized == -1

Threads == 0 .. BlockDim - 1

\* the inputs: entry j (counted from 0) holds the value j + 1 in column
\* j % CooCols, and x[c] = c + 1 (start_x = 0, inc_x = 1, and the same for
\* result); coords holds the rows, sorted
elements(j) == j + 1
column(j) == j % CooCols
x_at(c) == c + 1
CoordsLists ==
  UNION { {s \in [1 .. n -> 0 .. CooRows - 1] :
             \A a \in 1 .. n - 1 : s[a] <= s[a + 1]} : n \in 0 .. MaxEntries }
Boundaries(n) ==
  {g \in [0 .. GridDim -> 0 .. n] :
     /\ g[0] = 0
     /\ g[GridDim] = n
     /\ \A b \in 0 .. GridDim - 1 : g[b] <= g[b + 1]}
PriorResults == { [r \in 0 .. CooRows - 1 |-> 0], [r \in 0 .. CooRows - 1 |-> 7] }

\* prod(mat, vec)[r]
RECURSIVE row_sum(_, _, _)
row_sum(rows, r, n) ==
  IF n = 0 THEN 0
  ELSE row_sum(rows, r, n - 1)
         + (IF rows[n] = r THEN elements(n - 1) * x_at(column(n - 1)) ELSE 0)
prod(rows) == [r \in 0 .. CooRows - 1 |-> row_sum(rows, r, Len(rows))]

group_start(b) == group_boundaries[b]
group_end(b) == group_boundaries[b + 1]
k_end(b) ==
  IF group_end(b) > group_start(b)
    THEN 1 + (group_end(b) - group_start(b) - 1) \div BlockDim
    ELSE 0

\* the segmented parallel reduction: between two barriers every thread reads
\* the slot stride places to its left, between the next two it adds it
RECURSIVE reduction(_, _, _)
reduction(rows, inter, stride) ==
  IF stride >= BlockDim THEN inter
  ELSE reduction(rows,
                 [t \in Threads |->
                    inter[t] + (IF t >= stride /\ rows[t] = rows[t - stride]
                                  THEN inter[t - stride] ELSE 0)],
                 stride * 2)

\* one pass of the loop over k, made by all the threads of block b between
\* its barriers
loop_body(b, kk) ==
  LET li == [t \in Threads |-> group_start(b) + kk * BlockDim + t]
      tmp_x == [t \in Threads |-> IF li[t] < group_end(b) THEN coords[li[t] + 1] ELSE 0]
      val0 == [t \in Threads |->
                 IF li[t] < group_end(b)
                   THEN elements(li[t]) * x_at(column(li[t])) ELSE 0]
      last_row == shared_rows[b][BlockDim - 1]
      last_sum == inter_results[b][BlockDim - 1]
      val == [t \in Threads |->
                IF t = 0 /\ kk > 0 /\ tmp_x[0] = last_row
                  THEN val0[0] + last_sum ELSE val0[t]]
      carried == IF kk > 0 /\ tmp_x[0] # last_row
                   THEN [result EXCEPT ![last_row] = last_sum] ELSE result
      inter == reduction(tmp_x, val, 1)
      ends == {t \in Threads : /\ li[t] < group_end(b)
                               /\ t < BlockDim - 1
                               /\ tmp_x[t] # tmp_x[t + 1]}
      RECURSIVE stored(_, _)
      stored(res, ts) ==
        IF ts = {} THEN res
        ELSE LET t == CHOOSE u \in ts : \A w \in ts : u <= w
             IN  stored([res EXCEPT ![tmp_x[t]] = inter[t]], ts \ {t})
  IN  [result |-> stored(carried, ends), shared_rows |-> tmp_x,
       inter_results |-> inter, tmp |-> tmp_x, local_index |-> li]

\* mat is a coordinate matrix with sorted entries split into GridDim groups;
\* result holds what the caller left in it
InitCoo ==
  /\ IdleButCoo
  /\ coo_pc = "clear"
  /\ coords \in CoordsLists
  /\ group_boundaries \in Boundaries(Len(coords))
  /\ result \in PriorResults
  /\ block_pc = [b \in 0 .. GridDim - 1 |-> "idle"]
  /\ block_k = [b \in 0 .. GridDim - 1 |-> 0]
  /\ shared_rows = [b \in 0 .. GridDim - 1 |-> [t \in Threads |-> Uninitialized]]
  /\ inter_results = [b \in 0 .. GridDim - 1 |-> [t \in Threads |-> Uninitialized]]
  /\ tmp = [b \in 0 .. GridDim - 1 |-> [t \in Threads |-> Uninitialized]]
  /\ local_index = [b \in 0 .. GridDim - 1 |-> [t \in Threads |-> 0]]

\* result.clear() and the launch of the kernel
CooClear ==
  /\ coo_pc = "clear"
  /\ result' = [r \in 0 .. CooRows - 1 |-> 0]
  /\ coo_pc' = "kernel"
  /\ block_pc' = [b \in 0 .. GridDim - 1 |-> "loop"]
  /\ UNCHANGED << coords, group_boundaries, block_k, shared_rows, inter_results,
                  tmp, local_index >>
  /\ UNCHANGED notCoo

BlockLoop(b) ==
  /\ block_pc[b] = "loop"
  /\ block_k[b] < k_end(b)
  /\ LET s == loop_body(b, block_k[b])
     IN  /\ result' = s.result
         /\ shared_rows' = [shared_rows EXCEPT ![b] = s.shared_rows]
         /\ inter_results' = [inter_results EXCEPT ![b] = s.inter_results]
         /\ tmp' = [tmp EXCEPT ![b] = s.tmp]
         /\ local_index' = [local_index EXCEPT ![b] = s.local_index]
  /\ block_k' = [block_k EXCEPT ![b] = @ + 1]
  /\ UNCHANGED << coo_pc, coords, group_boundaries, block_pc >>
  /\ UNCHANGED notCoo

\* after the loop: the thread that holds the last entry of the group stores
\* its sum
BlockFinal(b) ==
  /\ block_pc[b] = "loop"
  /\ block_k[b] >= k_end(b)
  /\ LET writers == {t \in Threads : local_index[b][t] + 1 = group_end(b)}
     IN  /\ \A t \in writers : tmp[b][t] # Uninitialized
         /\ result' = [r \in 0 .. CooRows - 1 |->
                         IF \E t \in writers : tmp[b][t] = r
                           THEN inter_results[b][CHOOSE t \in writers : tmp[b][t] = r]
                           ELSE result[r]]
  /\ block_pc' = [block_pc EXCEPT ![b] = "done"]
  /\ UNCHANGED << coo_pc, coords, group_boundaries, block_k, shared_rows,
                  inter_results, tmp, local_index >>
  /\ UNCHANGED notCoo

\* after a loop of no pass, local_index is still 0 and tmp and inter_results
\* were never written: if group_end is 1, every thread stores an
\* indeterminate value at an indeterminate index, inside result or not
GarbageValues == { 0, 9 }
BlockFinalUninitialized(b) ==
  /\ block_pc[b] = "loop"
  /\ block_k[b] >= k_end(b)
  /\ \E t \in Threads : local_index[b][t] + 1 = group_end(b) /\ tmp[b][t] = Uninitialized
  /\ \/ /\ \E at \in [Threads -> 0 .. CooRows - 1], v \in [Threads -> GarbageValues] :
             result' = [r \in 0 .. CooRows - 1 |->
                          IF \E t \in Threads : at[t] = r
                            THEN v[CHOOSE t \in Threads : at[t] = r]
                            ELSE result[r]]
        /\ coo_pc' = coo_pc
     \/ /\ coo_pc' = "fault"
        /\ result' = result
  /\ block_pc' = [block_pc EXCEPT ![b] = "done"]
  /\ UNCHANGED << coords, group_boundaries, block_k, shared_rows,
                  inter_results, tmp, local_index >>
  /\ UNCHANGED notCoo

\* the kernel has completed and prod_impl returns
CooReturn ==
  /\ coo_pc = "kernel"
  /\ \A b \in 0 .. GridDim - 1 : block_pc[b] = "done"
  /\ coo_pc' = "returned"
  /\ UNCHANGED << coords, group_boundaries, result, block_pc, block_k, shared_rows,
                  inter_results, tmp, local_index >>
  /\ UNCHANGED notCoo

NextCoo ==
  \/ CooClear
  \/ \E b \in 0 .. GridDim - 1 : BlockLoop(b)
  \/ \E b \in 0 .. GridDim - 1 : BlockFinal(b)
  \/ \E b \in 0 .. GridDim - 1 : BlockFinalUninitialized(b)
  \/ CooReturn

SpecCoo == InitCoo /\ [][NextCoo]_vars

\* no row has entries in two groups
RowAligned ==
  \A b \in 1 .. GridDim - 1 :
    LET at == group_boundaries[b]
    IN  (0 < at /\ at < Len(coords)) => coords[at] # coords[at + 1]

\* C20: when prod_impl has returned, result[r] is the sum of element * x[column]
\* over the entries of row r (0 for a row without entries), for every sorted
\* matrix, every splitting into groups and every prior content of result.
ProdComputed == coo_pc = "returned" => result = prod(coords)

\* what the kernel does compute: the product, when no row has entries in two
\* groups and no empty group begins at entry 1
ProdComputedRowAligned ==
  ( /\ RowAligned
    /\ \A b \in 0 .. GridDim - 1 : ~ (group_start(b) = 1 /\ group_end(b) = 1) )
    => /\ coo_pc # "fault"
       /\ ProdComputed

----------------------------------------------------------------------------
\* ilut_precond< compressed_matrix > of viennacl/linalg/detail/ilu/ilut.hpp

MaxApplies == 2
MemoryTypes == {"MAIN_MEMORY", "CUDA_MEMORY"}

\* tag_.use_level_scheduling(): tag_ is 'ilut_tag const &', so the read goes
\* to the object the constructor was given; once that object's lifetime has
\* ended the read is of a dangling reference and may give either value
use_level_scheduling(t) ==
  IF t.alive THEN {t.use_level_scheduling_} ELSE BOOLEAN

\* a program is about to construct the preconditioner from a matrix and a tag
InitPrecond ==
  /\ IdleButPrecond
  /\ precond_pc = "start"
  /\ tag_ \in [use_level_scheduling_ : BOOLEAN, alive : {TRUE}]
  /\ mat_memory \in MemoryTypes
  /\ multifrontal_built = FALSE
  /\ init_seen = FALSE
  /\ apply_calls = << >>

\* the constructor: tag_(tag) binds the reference, then init(mat) factors the
\* matrix and returns before the multifrontal part unless the flag is set
Construct ==
  /\ precond_pc = "start"
  /\ \E b \in use_level_scheduling(tag_) :
       /\ init_seen' = b
       /\ multifrontal_built' = b
  /\ precond_pc' = "constructed"
  /\ UNCHANGED << tag_, mat_memory, apply_calls >>
  /\ UNCHANGED notPrecond

\* ilut_tag::use_level_scheduling(bool) called on the caller's tag object
SetUseLevelScheduling(b) ==
  /\ precond_pc = "constructed"
  /\ tag_.alive
  /\ tag_.use_level_scheduling_ # b
  /\ tag_' = [tag_ EXCEPT !.use_level_scheduling_ = b]
  /\ UNCHANGED << precond_pc, mat_memory, multifrontal_built, init_seen, apply_calls >>
  /\ UNCHANGED notPrecond

\* the caller's tag object goes out of scope (or was a temporary of the
\* constructor call) while the preconditioner lives on
TagDestroyed ==
  /\ precond_pc = "constructed"
  /\ tag_.alive
  /\ tag_' = [tag_ EXCEPT !.alive = FALSE]
  /\ UNCHANGED << precond_pc, mat_memory, multifrontal_built, init_seen, apply_calls >>
  /\ UNCHANGED notPrecond

\* apply(vec)
Apply(vec_memory) ==
  /\ precond_pc = "constructed"
  /\ Len(apply_calls) < MaxApplies
  /\ \E b \in use_level_scheduling(tag_) :
       apply_calls' =
         Append(apply_calls,
                [vec_memory |-> vec_memory,
                 use_level_scheduling |-> b,
                 branch |-> IF vec_memory # "MAIN_MEMORY"
                              THEN IF b THEN "level_scheduling_substitute"
                                        ELSE "inplace_solve on host"
                              ELSE "inplace_solve"])
  /\ UNCHANGED << precond_pc, tag_, mat_memory, multifrontal_built, init_seen >>
  /\ UNCHANGED notPrecond

NextPrecond ==
  \/ Construct
  \/ \E b \in BOOLEAN : SetUseLevelScheduling(b)
  \/ TagDestroyed
  \/ \E vec_memory \in MemoryTypes : Apply(vec_memory)

SpecPrecond == InitPrecond /\ [][NextPrecond]_vars

\* C29: in every call of apply that follows construction, whatever calls of
\* ilut_tag::use_level_scheduling(bool) came in between, the flag apply reads
\* is the flag init read, and apply takes the level-scheduling branch only if
\* init built the multifrontal L/U structures.
ApplySeesInitFlag ==
  \A n \in 1 .. Len(apply_calls) :
    /\ apply_calls[n].use_level_scheduling = init_seen
    /\ apply_calls[n].branch = "level_scheduling_substitute" => multifrontal_built

----------------------------------------------------------------------------
\* prod_impl(coordinate_matrix, matrix_base, matrix_base) and
\* coordinate_matrix_d_mat_mul_kernel of
\* viennacl/linalg/cuda/sparse_matrix_operations.hpp, with the matrix inputs
\* of the vector kernel above (coords, elements, column)

DMatCols == 2

\* d_mat(c, j), a CooCols x DMatCols matrix (start 0 and stride 1)
d_mat(c, j) == c + 1 + j * CooCols
PriorMatrices ==
  { [r \in 0 .. CooRows - 1 |-> [j \in 0 .. DMatCols - 1 |-> v]] : v \in {0, 7} }

\* prod(sp_mat, d_mat)(r, j)
RECURSIVE d_mat_row_sum(_, _, _, _)
d_mat_row_sum(rows, r, j, n) ==
  IF n = 0 THEN 0
  ELSE d_mat_row_sum(rows, r, j, n - 1)
         + (IF rows[n] = r THEN elements(n - 1) * d_mat(column(n - 1), j) ELSE 0)
d_mat_prod(rows) ==
  [r \in 0 .. CooRows - 1 |->
     [j \in 0 .. DMatCols - 1 |-> d_mat_row_sum(rows, r, j, Len(rows))]]

d_mat_k_end(b) ==
  IF dmm_group_boundaries[b + 1] > dmm_group_boundaries[b]
    THEN 1 + (dmm_group_boundaries[b + 1] - dmm_group_boundaries[b] - 1) \div BlockDim
    ELSE 0

\* one pass of the loop over k for the column result_col, made by all the
\* threads of block b between its barriers
d_mat_loop_body(b, result_col, kk) ==
  LET group_end_b == dmm_group_boundaries[b + 1]
      li == [t \in Threads |-> dmm_group_boundaries[b] + kk * BlockDim + t]
      tmp_x == [t \in Threads |-> IF li[t] < group_end_b THEN dmm_coords[li[t] + 1] ELSE 0]
      val0 == [t \in Threads |->
                 IF li[t] < group_end_b
                   THEN elements(li[t]) * d_mat(column(li[t]), result_col) ELSE 0]
      last_row == dmm_shared_rows[b][BlockDim - 1]
      last_sum == dmm_inter_results[b][BlockDim - 1]
      val == [t \in Threads |->
                IF t = 0 /\ kk > 0 /\ tmp_x[0] = last_row
                  THEN val0[0] + last_sum ELSE val0[t]]
      carried == IF kk > 0 /\ tmp_x[0] # last_row
                   THEN [dmm_result EXCEPT ![last_row][result_col] = last_sum]
                   ELSE dmm_result
      inter == reduction(tmp_x, val, 1)
      ends == {t \in Threads : /\ li[t] < group_end_b
                               /\ t < BlockDim - 1
                               /\ tmp_x[t] # tmp_x[t + 1]}
  IN  [result |-> [r \in 0 .. CooRows - 1 |->
                     [j \in 0 .. DMatCols - 1 |->
                        IF j = result_col /\ \E t \in ends : tmp_x[t] = r
                          THEN inter[CHOOSE t \in ends : tmp_x[t] = r]
                          ELSE carried[r][j]]],
       shared_rows |-> tmp_x, inter_results |-> inter, tmp |-> tmp_x,
       local_index |-> li]

\* prod_impl is called with a sorted coordinate matrix split into GridDim
\* groups and a result matrix that holds what the caller left in it; it
\* launches the kernel at once
InitDmm ==
  /\ IdleButDmm
  /\ dmm_pc = "kernel"
  /\ dmm_coords \in CoordsLists
  /\ dmm_group_boundaries \in Boundaries(Len(dmm_coords))
  /\ dmm_result \in PriorMatrices
  /\ dmm_block_pc = [b \in 0 .. GridDim - 1 |-> "loop"]
  /\ dmm_result_col = [b \in 0 .. GridDim - 1 |-> 0]
  /\ dmm_k = [b \in 0 .. GridDim - 1 |-> 0]
  /\ dmm_shared_rows = [b \in 0 .. GridDim - 1 |-> [t \in Threads |-> Uninitialized]]
  /\ dmm_inter_results = [b \in 0 .. GridDim - 1 |-> [t \in Threads |-> Uninitialized]]
  /\ dmm_tmp = [b \in 0 .. GridDim - 1 |-> [t \in Threads |-> Uninitialized]]
  /\ dmm_local_index = [b \in 0 .. GridDim - 1 |-> [t \in Threads |-> 0]]

DmmBlockLoop(b) ==
  /\ dmm_block_pc[b] = "loop"
  /\ dmm_result_col[b] < DMatCols
  /\ dmm_k[b] < d_mat_k_end(b)
  /\ LET s == d_mat_loop_body(b, dmm_result_col[b], dmm_k[b])
     IN  /\ dmm_result' = s.result
         /\ dmm_shared_rows' = [dmm_shared_rows EXCEPT ![b] = s.shared_rows]
         /\ dmm_inter_results' = [dmm_inter_results EXCEPT ![b] = s.inter_results]
         /\ dmm_tmp' = [dmm_tmp EXCEPT ![b] = s.tmp]
         /\ dmm_local_index' = [dmm_local_index EXCEPT ![b] = s.local_index]
  /\ dmm_k' = [dmm_k EXCEPT ![b] = @ + 1]
  /\ UNCHANGED << dmm_pc, dmm_coords, dmm_group_boundaries, dmm_block_pc, dmm_result_col >>
  /\ UNCHANGED notDmm

\* after the loop over k: the thread that holds the last entry of the group
\* stores its sum, and the loop over result_col goes on
DmmBlockFinal(b) ==
  /\ dmm_block_pc[b] = "loop"
  /\ dmm_result_col[b] < DMatCols
  /\ dmm_k[b] >= d_mat_k_end(b)
  /\ LET writers == {t \in Threads : dmm_local_index[b][t] + 1 = dmm_group_boundaries[b + 1]}
     IN  /\ \A t \in writers : dmm_tmp[b][t] # Uninitialized
         /\ dmm_result' =
              [r \in 0 .. CooRows - 1 |->
                 [j \in 0 .. DMatCols - 1 |->
                    IF j = dmm_result_col[b] /\ \E t \in writers : dmm_tmp[b][t] = r
                      THEN dmm_inter_results[b][CHOOSE t \in writers : dmm_tmp[b][t] = r]
                      ELSE dmm_result[r][j]]]
  /\ dmm_result_col' = [dmm_result_col EXCEPT ![b] = @ + 1]
  /\ dmm_k' = [dmm_k EXCEPT ![b] = 0]
  /\ UNCHANGED << dmm_pc, dmm_coords, dmm_group_boundaries, dmm_block_pc,
                  dmm_shared_rows, dmm_inter_results, dmm_tmp, dmm_local_index >>
  /\ UNCHANGED notDmm

\* after a loop of no pass, local_index is still 0 and tmp and inter_results
\* were never written: if group_end is 1, every thread stores an
\* indeterminate value at an indeterminate row, inside result or not
DmmBlockFinalUninitialized(b) ==
  /\ dmm_block_pc[b] = "loop"
  /\ dmm_result_col[b] < DMatCols
  /\ dmm_k[b] >= d_mat_k_end(b)
  /\ \E t \in Threads : /\ dmm_local_index[b][t] + 1 = dmm_group_boundaries[b + 1]
                        /\ dmm_tmp[b][t] = Uninitialized
  /\ \/ /\ \E at \in [Threads -> 0 .. CooRows - 1], v \in [Threads -> GarbageValues] :
             dmm_result' =
               [r \in 0 .. CooRows - 1 |->
                  [j \in 0 .. DMatCols - 1 |->
                     IF j = dmm_result_col[b] /\ \E t \in Threads : at[t] = r
                       THEN v[CHOOSE t \in Threads : at[t] = r]
                       ELSE dmm_result[r][j]]]
        /\ dmm_pc' = dmm_pc
     \/ /\ dmm_pc' = "fault"
        /\ dmm_result' = dmm_result
  /\ dmm_result_col' = [dmm_result_col EXCEPT ![b] = @ + 1]
  /\ dmm_k' = [dmm_k EXCEPT ![b] = 0]
  /\ UNCHANGED << dmm_coords, dmm_group_boundaries, dmm_block_pc,
                  dmm_shared_rows, dmm_inter_results, dmm_tmp, dmm_local_index >>
  /\ UNCHANGED notDmm

\* the loop over result_col ends
DmmBlockDone(b) ==
  /\ dmm_block_pc[b] = "loop"
  /\ dmm_result_col[b] >= DMatCols
  /\ dmm_block_pc' = [dmm_block_pc EXCEPT ![b] = "done"]
  /\ UNCHANGED << dmm_pc, dmm_coords, dmm_group_boundaries, dmm_result, dmm_result_col,
                  dmm_k, dmm_shared_rows, dmm_inter_results, dmm_tmp, dmm_local_index >>
  /\ UNCHANGED notDmm

\* the kernel has completed and prod_impl returns
DmmReturn ==
  /\ dmm_pc = "kernel"
  /\ \A b \in 0 .. GridDim - 1 : dmm_block_pc[b] = "done"
  /\ dmm_pc' = "returned"
  /\ UNCHANGED << dmm_coords, dmm_group_boundaries, dmm_result, dmm_block_pc,
                  dmm_result_col, dmm_k, dmm_shared_rows, dmm_inter_results, dmm_tmp,
                  dmm_local_index >>
  /\ UNCHANGED notDmm

NextDmm ==
  \/ \E b \in 0 .. GridDim - 1 : DmmBlockLoop(b)
  \/ \E b \in 0 .. GridDim - 1 : DmmBlockFinal(b)
  \/ \E b \in 0 .. GridDim - 1 : DmmBlockFinalUninitialized(b)
  \/ \E b \in 0 .. GridDim - 1 : DmmBlockDone(b)
  \/ DmmReturn

SpecDmm == InitDmm /\ [][NextDmm]_vars

\* C21: when prod_impl has returned, result(r, j) is the sum of
\* element * d_mat(column, j) over the entries of row r, and 0 for a row
\* without entries, whatever result held before the call.
DMatProdComputed == dmm_pc = "returned" => dmm_result = d_mat_prod(dmm_coords)

\* what the kernel does compute: the rows that have entries, when no row has
\* entries in two groups and no empty group begins at entry 1; the rows
\* without entries keep what result held before
DMatProdComputedStoredRows ==
  ( /\ dmm_pc = "returned"
    /\ \A b \in 1 .. GridDim - 1 :
         LET at == dmm_group_boundaries[b]
         IN  /\ (0 < at /\ at < Len(dmm_coords)) => dmm_coords[at] # dmm_coords[at + 1]
             /\ ~ (at = 1 /\ dmm_group_boundaries[b + 1] = 1) )
    => \A r \in 0 .. CooRows - 1 :
         IF \E n \in 1 .. Len(dmm_coords) : dmm_coords[n] = r
           THEN dmm_result[r] = d_mat_prod(dmm_coords)[r]
           ELSE dmm_result[r] \in { [j \in 0 .. DMatCols - 1 |-> v] : v \in {0, 7} }

----------------------------------------------------------------------------
\* prod_impl(sliced_ell_matrix, vector_base, vector_base) and
\* sliced_ell_matrix_vec_mul_kernel of
\* viennacl/linalg/cuda/sparse_matrix_operations.hpp

MaxRows == 6
MaxRowsPerBlock == 3
SellGridDim == 2

\* the number of row blocks of the matrix
ceil_div(n, d) == (n + d - 1) \div d

\* the matrix has num_rows rows in blocks of rows_per_block rows; the kernel
\* is launched with rows_per_block threads in each thread block
InitSell ==
  /\ IdleButSell
  /\ sell_pc = "kernel"
  /\ num_rows \in 1 .. MaxRows
  /\ local_size \in 1 .. MaxRowsPerBlock
  /\ block_idx = [b \in 0 .. SellGridDim - 1 |-> b]
  /\ block_reads = {}
  /\ stores = [row \in 0 .. num_rows - 1 |-> 0]

\* one pass of the loop over block_idx in thread block b: every thread reads
\* block_start[block_idx] and columns_per_block[block_idx], sums its row, and
\* stores the sum if row < num_rows. A read past the last row block gives
\* indeterminate offset and num_columns, hence indeterminate reads of
\* elements: the pass may complete or fault
SellBlockPass(b) ==
  /\ sell_pc = "kernel"
  /\ block_idx[b] <= num_rows \div local_size
  /\ block_reads' = block_reads \cup {block_idx[b]}
  /\ stores' = [row \in 0 .. num_rows - 1 |->
                   IF \E local_id \in 0 .. local_size - 1 :
                        row = block_idx[b] * local_size + local_id
                     THEN stores[row] + 1 ELSE stores[row]]
  /\ block_idx' = [block_idx EXCEPT ![b] = @ + SellGridDim]
  /\ \/ sell_pc' = sell_pc
     \/ /\ block_idx[b] >= ceil_div(num_rows, local_size)
        /\ sell_pc' = "fault"
  /\ UNCHANGED << num_rows, local_size >>
  /\ UNCHANGED notSell

\* every thread block has left its loop and prod_impl returns
SellReturn ==
  /\ sell_pc = "kernel"
  /\ \A b \in 0 .. SellGridDim - 1 : block_idx[b] > num_rows \div local_size
  /\ sell_pc' = "returned"
  /\ UNCHANGED << num_rows, local_size, block_idx, block_reads, stores >>
  /\ UNCHANGED notSell

NextSell ==
  \/ \E b \in 0 .. SellGridDim - 1 : SellBlockPass(b)
  \/ SellReturn

SpecSell == InitSell /\ [][NextSell]_vars

\* C28: every block_idx at which the kernel reads block_start and
\* columns_per_block is less than ceil(num_rows / local_size), also when
\* num_rows is a multiple of local_size, and when the kernel has completed
\* every result[row] with row < num_rows was stored exactly once.
BlockIdxInBounds ==
  /\ \A i \in block_reads : i < ceil_div(num_rows, local_size)
  /\ sell_pc = "returned" => \A row \in 0 .. num_rows - 1 : stores[row] = 1

\* what holds: the reads are in bounds when num_rows is no multiple of
\* local_size, one past the last row block at most otherwise, and every row
\* is stored exactly once by a kernel that completes
BlockIdxAtMostOnePast ==
  /\ \A i \in block_reads :
       i < ceil_div(num_rows, local_size) + (IF num_rows % local_size = 0 THEN 1 ELSE 0)
  /\ sell_pc = "returned" => \A row \in 0 .. num_rows - 1 : stores[row] = 1

----------------------------------------------------------------------------
\* prod_impl(compressed_compressed_matrix, vector_base, vector_base) and
\* compressed_compressed_matrix_vec_mul_kernel of
\* viennacl/linalg/cuda/sparse_matrix_operations.hpp

CcmGridDim == 2
CcmBlockDim == 2
CcmMaxSize == 4
CcmThreads == 0 .. CcmGridDim * CcmBlockDim - 1

\* the rows that have entries, ascending; compressed row i holds the two
\* entries row_jumper[i] .. row_jumper[i + 1] - 1, with the values and columns
\* of the coordinate matrix above
RowIndexLists(size) ==
  UNION { {s \in [1 .. n -> 0 .. size - 1] : \A a \in 1 .. n - 1 : s[a] < s[a + 1]} :
          n \in 0 .. size }
nonzero_rows == Len(row_indices)
row_jumper(i) == 2 * i

\* the loop over j of the thread that handles compressed row i
RECURSIVE dot_prod(_, _)
dot_prod(j, row_end) ==
  IF j >= row_end THEN 0
  ELSE elements(j) * x_at(column(j)) + dot_prod(j + 1, row_end)

\* prod(mat, vec)
ccm_prod ==
  [r \in 0 .. size_result - 1 |->
     IF \E i \in 1 .. nonzero_rows : row_indices[i] = r
       THEN LET i == (CHOOSE n \in 1 .. nonzero_rows : row_indices[n] = r) - 1
            IN  dot_prod(row_jumper(i), row_jumper(i + 1))
       ELSE 0]

\* the kernel is launched on a result that holds what the caller left in it;
\* thread threadIdx.x of block blockIdx.x begins its first loop at
\* i = blockDim.x * blockIdx.x + threadIdx.x
InitCcm ==
  /\ IdleButCcm
  /\ ccm_pc = "kernel"
  /\ size_result \in 1 .. CcmMaxSize
  /\ row_indices \in RowIndexLists(size_result)
  /\ ccm_result \in { [r \in 0 .. size_result - 1 |-> v] : v \in {0, 7} }
  /\ ccm_loop = [t \in CcmThreads |-> "zero"]
  /\ ccm_i = [t \in CcmThreads |-> t]
  /\ storers = [r \in 0 .. size_result - 1 |-> {}]

\* one pass of the first loop: result[i] = 0
CcmZero(t) ==
  /\ ccm_loop[t] = "zero"
  /\ ccm_i[t] < size_result
  /\ ccm_result' = [ccm_result EXCEPT ![ccm_i[t]] = 0]
  /\ storers' = [storers EXCEPT ![ccm_i[t]] = @ \cup {t}]
  /\ ccm_i' = [ccm_i EXCEPT ![t] = @ + CcmGridDim * CcmBlockDim]
  /\ UNCHANGED << ccm_pc, size_result, row_indices, ccm_loop >>
  /\ UNCHANGED notCcm

\* the first loop ends and the thread goes on to the second, with no barrier
CcmZeroEnd(t) ==
  /\ ccm_loop[t] = "zero"
  /\ ccm_i[t] >= size_result
  /\ ccm_loop' = [ccm_loop EXCEPT ![t] = "dot"]
  /\ ccm_i' = [ccm_i EXCEPT ![t] = t]
  /\ UNCHANGED << ccm_pc, size_result, row_indices, ccm_result, storers >>
  /\ UNCHANGED notCcm

\* one pass of the second loop: result[row_indices[i]] = dot_prod
CcmDot(t) ==
  /\ ccm_loop[t] = "dot"
  /\ ccm_i[t] < nonzero_rows
  /\ LET row == row_indices[ccm_i[t] + 1]
     IN  /\ ccm_result' = [ccm_result EXCEPT
                             ![row] = dot_prod(row_jumper(ccm_i[t]), row_jumper(ccm_i[t] + 1))]
         /\ storers' = [storers EXCEPT ![row] = @ \cup {t}]
  /\ ccm_i' = [ccm_i EXCEPT ![t] = @ + CcmGridDim * CcmBlockDim]
  /\ UNCHANGED << ccm_pc, size_result, row_indices, ccm_loop >>
  /\ UNCHANGED notCcm

CcmDotEnd(t) ==
  /\ ccm_loop[t] = "dot"
  /\ ccm_i[t] >= nonzero_rows
  /\ ccm_loop' = [ccm_loop EXCEPT ![t] = "done"]
  /\ UNCHANGED << ccm_pc, size_result, row_indices, ccm_result, ccm_i, storers >>
  /\ UNCHANGED notCcm

\* the kernel has completed and prod_impl returns
CcmReturn ==
  /\ ccm_pc = "kernel"
  /\ \A t \in CcmThreads : ccm_loop[t] = "done"
  /\ ccm_pc' = "returned"
  /\ UNCHANGED << size_result, row_indices, ccm_result, ccm_loop, ccm_i, storers >>
  /\ UNCHANGED notCcm

NextCcm ==
  \/ \E t \in CcmThreads : CcmZero(t)
  \/ \E t \in CcmThreads : CcmZeroEnd(t)
  \/ \E t \in CcmThreads : CcmDot(t)
  \/ \E t \in CcmThreads : CcmDotEnd(t)
  \/ CcmReturn

SpecCcm == InitCcm /\ [][NextCcm]_vars

\* the thread block of a thread
block_of(t) == t \div CcmBlockDim

\* C25: the kernel has no data race across thread blocks (no entry of result
\* is stored to by threads of two blocks, which nothing orders), and when it
\* has completed result[row_indices[i]] is the dot product of compressed row i
\* for every i < nonzero_rows and every other entry of result is 0.
NoRaceAcrossBlocks ==
  /\ \A r \in 0 .. size_result - 1 :
       \A t1 \in storers[r], t2 \in storers[r] : block_of(t1) = block_of(t2)
  /\ ccm_pc = "returned" => ccm_result = ccm_prod

\* what holds: the rows without entries are 0, and a row with entries holds
\* its dot product or the 0 of the first loop
CcmResultOrZero ==
  ccm_pc = "returned"
    => \A r \in 0 .. size_result - 1 : ccm_result[r] \in {0, ccm_prod[r]}

----------------------------------------------------------------------------
\* detail::row_info of a compressed_matrix (csr_row_info_extractor_kernel) and
\* of a coordinate_matrix (coo_row_info_extractor) of
\* viennacl/linalg/cuda/sparse_matrix_operations.hpp

RiRows == 2
RiCols == 3
RiMaxEntries == 4
RiValues == { -3, 2 }
\* SPARSE_ROW_NORM_INF, SPARSE_ROW_NORM_1, SPARSE_ROW_DIAGONAL (the 2-norm,
\* selector 2, takes a square root and is left out)
RiOptions == { 0, 1, 3 }

fabs_int(v) == IF v < 0 THEN 0 - v ELSE v
fmax(a, b) == IF a >= b THEN a ELSE b

\* the matrices: at most RiMaxEntries entries at distinct places, sorted by
\* row and column
RiMatrices ==
  UNION { {s \in [1 .. n -> [row : 0 .. RiRows - 1, col : 0 .. RiCols - 1, val : RiValues]] :
             \A a \in 1 .. n - 1 :
               \/ s[a].row < s[a + 1].row
               \/ s[a].row = s[a + 1].row /\ s[a].col < s[a + 1].col} :
          n \in 0 .. RiMaxEntries }

\* the CSR arrays of the matrix: row_indices[row] is the number of entries in
\* the rows before row; elements and column_indices are the entries in order
csr_row_indices(mat, row) == Cardinality({n \in 1 .. Len(mat) : mat[n].row < row})

\* the value csr_row_info_extractor_kernel stores to result[row]
RECURSIVE csr_row_value(_, _, _, _, _)
csr_row_value(mat, opt, row, i, value) ==
  IF i >= csr_row_indices(mat, row + 1) THEN value
  ELSE LET e == mat[i + 1]
       IN  CASE opt = 0 -> csr_row_value(mat, opt, row, i + 1, fmax(value, fabs_int(e.val)))
             [] opt = 1 -> csr_row_value(mat, opt, row, i + 1, value + fabs_int(e.val))
             [] opt = 3 -> IF e.col = row THEN e.val
                           ELSE csr_row_value(mat, opt, row, i + 1, value)
csr_row_info(mat, opt) ==
  [row \in 0 .. RiRows - 1 |-> csr_row_value(mat, opt, row, csr_row_indices(mat, row), 0)]

ri_k_end(b) ==
  IF ri_group_boundaries[b + 1] > ri_group_boundaries[b]
    THEN 1 + (ri_group_boundaries[b + 1] - ri_group_boundaries[b] - 1) \div BlockDim
    ELSE 0

\* the segmented parallel reduction of coo_row_info_extractor
RECURSIVE ri_reduction(_, _, _, _)
ri_reduction(rows, inter, stride, opt) ==
  IF stride >= BlockDim THEN inter
  ELSE ri_reduction(rows,
                    [t \in Threads |->
                       LET left == IF t >= stride /\ rows[t] = rows[t - stride]
                                     THEN inter[t - stride] ELSE 0
                       IN  IF opt = 1 THEN inter[t] + left ELSE fmax(inter[t], left)],
                    stride * 2, opt)

\* one pass of the loop over k, made by all the threads of block b between
\* its barriers
coo_row_info_body(b, kk) ==
  LET group_end_b == ri_group_boundaries[b + 1]
      li == [t \in Threads |-> ri_group_boundaries[b] + kk * BlockDim + t]
      tmp_x == [t \in Threads |-> IF li[t] < group_end_b THEN ri_mat[li[t] + 1].row ELSE 0]
      tmp_y == [t \in Threads |-> IF li[t] < group_end_b THEN ri_mat[li[t] + 1].col ELSE 0]
      val0 == [t \in Threads |->
                 IF li[t] < group_end_b /\ (option # 3 \/ tmp_x[t] = tmp_y[t])
                   THEN ri_mat[li[t] + 1].val ELSE 0]
      last_row == ri_shared_rows[b][BlockDim - 1]
      last_sum == ri_inter_results[b][BlockDim - 1]
      val == [t \in Threads |->
                IF t = 0 /\ kk > 0 /\ tmp_x[0] = last_row
                  THEN IF option = 1 THEN fabs_int(val0[0]) + last_sum
                                     ELSE fmax(val0[0], fabs_int(last_sum))
                  ELSE val0[t]]
      carried == IF kk > 0 /\ tmp_x[0] # last_row
                   THEN [coo_result EXCEPT ![last_row] = last_sum] ELSE coo_result
      inter == ri_reduction(tmp_x,
                            [t \in Threads |-> IF option = 1 THEN fabs_int(val[t]) ELSE val[t]],
                            1, option)
      ends == {t \in Threads : /\ t # BlockDim - 1
                               /\ tmp_x[t] # tmp_x[t + 1]
                               /\ inter[t] # 0}
  IN  [result |-> [r \in 0 .. RiRows - 1 |->
                     IF \E t \in ends : tmp_x[t] = r
                       THEN inter[CHOOSE t \in ends : tmp_x[t] = r]
                       ELSE carried[r]],
       shared_rows |-> tmp_x, inter_results |-> inter, tmp |-> tmp_x,
       local_index |-> li]

\* the same matrix is held as a compressed_matrix and as a coordinate_matrix
\* split into GridDim groups, and both result vectors are zero
InitRi ==
  /\ IdleButRi
  /\ ri_pc = "csr"
  /\ ri_mat \in RiMatrices
  /\ option \in RiOptions
  /\ ri_group_boundaries \in Boundaries(Len(ri_mat))
  /\ csr_result = [r \in 0 .. RiRows - 1 |-> 0]
  /\ coo_result = [r \in 0 .. RiRows - 1 |-> 0]
  /\ ri_block_pc = [b \in 0 .. GridDim - 1 |-> "idle"]
  /\ ri_k = [b \in 0 .. GridDim - 1 |-> 0]
  /\ ri_shared_rows = [b \in 0 .. GridDim - 1 |-> [t \in Threads |-> Uninitialized]]
  /\ ri_inter_results = [b \in 0 .. GridDim - 1 |-> [t \in Threads |-> Uninitialized]]
  /\ ri_tmp = [b \in 0 .. GridDim - 1 |-> [t \in Threads |-> Uninitialized]]
  /\ ri_local_index = [b \in 0 .. GridDim - 1 |-> [t \in Threads |-> 0]]

\* row_info(compressed_matrix): every row is handled by one thread, which
\* stores to result[row] only; then row_info(coordinate_matrix) is launched
CsrRowInfo ==
  /\ ri_pc = "csr"
  /\ csr_result' = csr_row_info(ri_mat, option)
  /\ ri_pc' = "coo"
  /\ ri_block_pc' = [b \in 0 .. GridDim - 1 |-> "loop"]
  /\ UNCHANGED << ri_mat, option, ri_group_boundaries, coo_result, ri_k, ri_shared_rows,
                  ri_inter_results, ri_tmp, ri_local_index >>
  /\ UNCHANGED notRi

RiBlockLoop(b) ==
  /\ ri_block_pc[b] = "loop"
  /\ ri_k[b] < ri_k_end(b)
  /\ LET s == coo_row_info_body(b, ri_k[b])
     IN  /\ coo_result' = s.result
         /\ ri_shared_rows' = [ri_shared_rows EXCEPT ![b] = s.shared_rows]
         /\ ri_inter_results' = [ri_inter_results EXCEPT ![b] = s.inter_results]
         /\ ri_tmp' = [ri_tmp EXCEPT ![b] = s.tmp]
         /\ ri_local_index' = [ri_local_index EXCEPT ![b] = s.local_index]
  /\ ri_k' = [ri_k EXCEPT ![b] = @ + 1]
  /\ UNCHANGED << ri_pc, ri_mat, option, ri_group_boundaries, csr_result, ri_block_pc >>
  /\ UNCHANGED notRi

\* after the loop: the thread that holds the last entry of the group stores
\* its value unless it is 0
RiBlockFinal(b) ==
  /\ ri_block_pc[b] = "loop"
  /\ ri_k[b] >= ri_k_end(b)
  /\ LET holders == {t \in Threads : ri_local_index[b][t] + 1 = ri_group_boundaries[b + 1]}
         writers == {t \in holders : ri_inter_results[b][t] # 0}
     IN  /\ \A t \in holders : ri_tmp[b][t] # Uninitialized
         /\ coo_result' = [r \in 0 .. RiRows - 1 |->
                             IF \E t \in writers : ri_tmp[b][t] = r
                               THEN ri_inter_results[b][CHOOSE t \in writers : ri_tmp[b][t] = r]
                               ELSE coo_result[r]]
  /\ ri_block_pc' = [ri_block_pc EXCEPT ![b] = "done"]
  /\ UNCHANGED << ri_pc, ri_mat, option, ri_group_boundaries, csr_result, ri_k,
                  ri_shared_rows, ri_inter_results, ri_tmp, ri_local_index >>
  /\ UNCHANGED notRi

\* after a loop of no pass, local_index is still 0 and tmp and inter_results
\* were never written: if group_end is 1, every thread tests an indeterminate
\* value and may store it at an indeterminate row, inside result or not
RiBlockFinalUninitialized(b) ==
  /\ ri_block_pc[b] = "loop"
  /\ ri_k[b] >= ri_k_end(b)
  /\ \E t \in Threads : /\ ri_local_index[b][t] + 1 = ri_group_boundaries[b + 1]
                        /\ ri_tmp[b][t] = Uninitialized
  /\ \/ /\ \E at \in [Threads -> 0 .. RiRows - 1], v \in [Threads -> GarbageValues] :
             coo_result' = [r \in 0 .. RiRows - 1 |->
                              IF \E t \in Threads : at[t] = r /\ v[t] # 0
                                THEN v[CHOOSE t \in Threads : at[t] = r /\ v[t] # 0]
                                ELSE coo_result[r]]
        /\ ri_pc' = ri_pc
     \/ /\ ri_pc' = "fault"
        /\ coo_result' = coo_result
  /\ ri_block_pc' = [ri_block_pc EXCEPT ![b] = "done"]
  /\ UNCHANGED << ri_mat, option, ri_group_boundaries, csr_result, ri_k,
                  ri_shared_rows, ri_inter_results, ri_tmp, ri_local_index >>
  /\ UNCHANGED notRi

\* the kernel has completed and row_info returns
RiReturn ==
  /\ ri_pc = "coo"
  /\ \A b \in 0 .. GridDim - 1 : ri_block_pc[b] = "done"
  /\ ri_pc' = "returned"
  /\ UNCHANGED << ri_mat, option, ri_group_boundaries, csr_result, coo_result,
                  ri_block_pc, ri_k, ri_shared_rows, ri_inter_results, ri_tmp,
                  ri_local_index >>
  /\ UNCHANGED notRi

NextRi ==
  \/ CsrRowInfo
  \/ \E b \in 0 .. GridDim - 1 : RiBlockLoop(b)
  \/ \E b \in 0 .. GridDim - 1 : RiBlockFinal(b)
  \/ \E b \in 0 .. GridDim - 1 : RiBlockFinalUninitialized(b)
  \/ RiReturn

SpecRi == InitRi /\ [][NextRi]_vars

\* no row has entries in two groups and no empty group begins at entry 1
RiRowAligned ==
  \A b \in 1 .. GridDim - 1 :
    LET at == ri_group_boundaries[b]
    IN  /\ (0 < at /\ at < Len(ri_mat)) => ri_mat[at].row # ri_mat[at + 1].row
        /\ ~ (at = 1 /\ ri_group_boundaries[b + 1] = 1)

\* C27: for the same matrix held in CSR and in COO format and a result that
\* is zero before, row_info fills the same vector through both kernels, for
\* the inf-norm, the 1-norm and the diagonal, with negative entries, negative
\* diagonal entries and rows longer than one chunk of blockDim entries.
RowInfoAgrees ==
  (ri_pc = "returned" /\ RiRowAligned) => coo_result = csr_result

\* what holds: the 1-norm agrees, and so do the inf-norm and the diagonal of
\* a matrix without negative entries
RowInfoAgreesNonNegative ==
  ( /\ ri_pc = "returned"
    /\ RiRowAligned
    /\ option = 1 \/ \A n \in 1 .. Len(ri_mat) : ri_mat[n].val >= 0 )
    => coo_result = csr_result

----------------------------------------------------------------------------
\* prod_impl(compressed_matrix, vector_base, vector_base) and
\* compressed_matrix_vec_mul_adaptive_kernel of
\* viennacl/linalg/cuda/sparse_matrix_operations.hpp

\* blockDim.x (256 in the launch, a power of two), the size of shared_elements
\* (1024 there), and gridDim.x: one thread block is followed, which handles
\* the row blocks blockIdx.x, blockIdx.x + gridDim.x, ...
AdpBlockDim == 4
AdpSharedSize == 8
AdpGridDim == 1
AdpMaxRows == 3
AdpThreads == 0 .. AdpBlockDim - 1
AdpRowLengths == { 0, 3, 5 }

\* the CSR arrays: row_indices[row] is the number of entries before row, and
\* entry j has the value and the column of the coordinate matrix above
adp_row_indices(row) == LET RECURSIVE upto(_)
                            upto(r) == IF r = 0 THEN 0 ELSE upto(r - 1) + row_lengths[r]
                        IN  upto(row)
product_at(j) == elements(j) * x_at(column(j))
RECURSIVE adp_dot_prod(_, _)
adp_dot_prod(j, stop) == IF j >= stop THEN 0 ELSE product_at(j) + adp_dot_prod(j + 1, stop)

\* the row blocks: consecutive rows, one row or several rows with no more
\* entries than shared_elements has slots
RowBlocks(lens) ==
  UNION { {s \in [1 .. n + 1 -> 0 .. Len(lens)] :
             /\ s[1] = 0
             /\ s[n + 1] = Len(lens)
             /\ \A a \in 1 .. n :
                  /\ s[a] < s[a + 1]
                  /\ s[a + 1] - s[a] > 1
                       => LET RECURSIVE entries(_)
                              entries(r) == IF r = s[a] THEN 0 ELSE entries(r - 1) + lens[r]
                          IN  entries(s[a + 1]) <= AdpSharedSize} :
          n \in 1 .. Len(lens) }
num_blocks == Len(row_blocks) - 1
row_start(block_id) == row_blocks[block_id + 1]
row_stop(block_id) == row_blocks[block_id + 2]
element_start(block_id) == adp_row_indices(row_start(block_id))
element_stop(block_id) == adp_row_indices(row_stop(block_id))

\* the slot a thread adds to its own in the reduction
reduce_from_next(t, stride) == t + 1
reduce_from(t, stride) == t + stride

\* the kernel is launched on a result that holds what the caller left in it;
\* shared_elements is not initialised
InitAdp ==
  /\ IdleButAdp
  /\ adp_pc = "kernel"
  /\ row_lengths \in UNION { [1 .. n -> AdpRowLengths] : n \in 1 .. AdpMaxRows }
  /\ row_blocks \in RowBlocks(row_lengths)
  /\ blockIdx \in 0 .. AdpGridDim - 1
  /\ thr_pc = [t \in AdpThreads |-> "top"]
  /\ thr_block_id = [t \in AdpThreads |-> blockIdx]
  /\ thr_i = [t \in AdpThreads |-> 0]
  /\ thr_stride = [t \in AdpThreads |-> 0]
  /\ shared_elements = [s \in 0 .. AdpSharedSize - 1 |-> Uninitialized]
  /\ adp_result = [row \in 0 .. Len(row_lengths) - 1 |-> 7]
  /\ shared_reads = [t \in AdpThreads |-> {}]
  /\ shared_writes = [t \in AdpThreads |-> {}]

\* the test of the loop over block_id and the choice of the branch
AdpTop(t) ==
  /\ thr_pc[t] = "top"
  /\ LET block_id == thr_block_id[t]
     IN  IF block_id >= num_blocks
           THEN thr_pc' = [thr_pc EXCEPT ![t] = "done"] /\ thr_i' = thr_i
           ELSE IF row_stop(block_id) - row_start(block_id) > 1
                  THEN /\ thr_pc' = [thr_pc EXCEPT ![t] = "load"]
                       /\ thr_i' = [thr_i EXCEPT ![t] = element_start(block_id) + t]
                  ELSE /\ thr_pc' = [thr_pc EXCEPT ![t] = "accumulate"]
                       /\ thr_i' = thr_i
  /\ UNCHANGED << adp_pc, row_lengths, row_blocks, blockIdx, thr_block_id, thr_stride,
                  shared_elements, adp_result, shared_reads, shared_writes >>
  /\ UNCHANGED notAdp

\* several rows: one pass of the loop that loads the products to
\* shared_elements, or its end at the barrier
AdpLoad(t) ==
  /\ thr_pc[t] = "load"
  /\ LET block_id == thr_block_id[t]
         slot == thr_i[t] - element_start(block_id)
     IN  IF thr_i[t] < element_stop(block_id)
           THEN /\ shared_elements' = [shared_elements EXCEPT ![slot] = product_at(thr_i[t])]
                /\ shared_writes' = [shared_writes EXCEPT ![t] = @ \cup {slot}]
                /\ thr_i' = [thr_i EXCEPT ![t] = @ + AdpBlockDim]
                /\ thr_pc' = thr_pc
           ELSE /\ thr_pc' = [thr_pc EXCEPT ![t] = "syncthreads loaded"]
                /\ UNCHANGED << shared_elements, shared_writes, thr_i >>
  /\ UNCHANGED << adp_pc, row_lengths, row_blocks, blockIdx, thr_block_id, thr_stride,
                  adp_result, shared_reads >>
  /\ UNCHANGED notAdp

\* several rows: one pass of the loop that sums a row from shared_elements,
\* or its end at the barrier that closes the pass over block_id
AdpSum(t) ==
  /\ thr_pc[t] = "sum"
  /\ LET block_id == thr_block_id[t]
         row == thr_i[t]
         thread_row_start == adp_row_indices(row) - element_start(block_id)
         thread_row_stop == adp_row_indices(row + 1) - element_start(block_id)
         RECURSIVE dot(_)
         dot(i) == IF i >= thread_row_stop THEN 0 ELSE shared_elements[i] + dot(i + 1)
     IN  IF row < row_stop(block_id)
           THEN /\ adp_result' = [adp_result EXCEPT ![row] = dot(thread_row_start)]
                /\ shared_reads' = [shared_reads EXCEPT
                                      ![t] = @ \cup (thread_row_start .. thread_row_stop - 1)]
                /\ thr_i' = [thr_i EXCEPT ![t] = @ + AdpBlockDim]
                /\ thr_pc' = thr_pc
           ELSE /\ thr_pc' = [thr_pc EXCEPT ![t] = "syncthreads end"]
                /\ UNCHANGED << adp_result, shared_reads, thr_i >>
  /\ UNCHANGED << adp_pc, row_lengths, row_blocks, blockIdx, thr_block_id, thr_stride,
                  shared_elements, shared_writes >>
  /\ UNCHANGED notAdp

\* one row: the thread sets its slot to 0 and adds every blockDim.x-th
\* product of the row to it, then enters the reduction
AdpAccumulate(t) ==
  /\ thr_pc[t] = "accumulate"
  /\ LET block_id == thr_block_id[t]
         RECURSIVE own(_)
         own(i) == IF i >= element_stop(block_id) THEN 0
                   ELSE product_at(i) + own(i + AdpBlockDim)
     IN  shared_elements' = [shared_elements EXCEPT ![t] = own(element_start(block_id) + t)]
  /\ shared_writes' = [shared_writes EXCEPT ![t] = @ \cup {t}]
  /\ thr_stride' = [thr_stride EXCEPT ![t] = AdpBlockDim \div 2]
  /\ thr_pc' = [thr_pc EXCEPT ![t] = IF AdpBlockDim \div 2 > 0 THEN "syncthreads reduce"
                                                               ELSE "store"]
  /\ UNCHANGED << adp_pc, row_lengths, row_blocks, blockIdx, thr_block_id, thr_i,
                  adp_result, shared_reads >>
  /\ UNCHANGED notAdp

\* one row: the body of one pass of the reduction, after its barrier
AdpReduce(t) ==
  /\ thr_pc[t] = "reduce"
  /\ IF t < thr_stride[t]
       THEN LET from == reduce_from(t, thr_stride[t])
            IN  /\ shared_elements' =
                     [shared_elements EXCEPT ![t] = @ + shared_elements[from]]
                /\ shared_reads' = [shared_reads EXCEPT ![t] = @ \cup {t, from}]
                /\ shared_writes' = [shared_writes EXCEPT ![t] = @ \cup {t}]
       ELSE UNCHANGED << shared_elements, shared_reads, shared_writes >>
  /\ thr_stride' = [thr_stride EXCEPT ![t] = @ \div 2]
  /\ thr_pc' = [thr_pc EXCEPT ![t] = IF thr_stride[t] \div 2 > 0 THEN "syncthreads reduce"
                                                                 ELSE "store"]
  /\ UNCHANGED << adp_pc, row_lengths, row_blocks, blockIdx, thr_block_id, thr_i,
                  adp_result >>
  /\ UNCHANGED notAdp

\* one row: thread 0 stores shared_elements[0] to result[row_start]
AdpStore(t) ==
  /\ thr_pc[t] = "store"
  /\ IF t = 0
       THEN /\ adp_result' = [adp_result EXCEPT
                                ![row_start(thr_block_id[t])] = shared_elements[0]]
            /\ shared_reads' = [shared_reads EXCEPT ![t] = @ \cup {0}]
       ELSE UNCHANGED << adp_result, shared_reads >>
  /\ thr_pc' = [thr_pc EXCEPT ![t] = "syncthreads end"]
  /\ UNCHANGED << adp_pc, row_lengths, row_blocks, blockIdx, thr_block_id, thr_i,
                  thr_stride, shared_elements, shared_writes >>
  /\ UNCHANGED notAdp

AtBarrier(t) == thr_pc[t] \in {"syncthreads loaded", "syncthreads reduce", "syncthreads end"}

\* __syncthreads(): every thread of the block has arrived, all go on
AdpSyncthreads ==
  /\ \A t \in AdpThreads : AtBarrier(t)
  /\ thr_pc' = [t \in AdpThreads |->
                  CASE thr_pc[t] = "syncthreads loaded" -> "sum"
                    [] thr_pc[t] = "syncthreads reduce" -> "reduce"
                    [] thr_pc[t] = "syncthreads end" -> "top"]
  /\ thr_i' = [t \in AdpThreads |->
                 IF thr_pc[t] = "syncthreads loaded"
                   THEN row_start(thr_block_id[t]) + t ELSE thr_i[t]]
  /\ thr_block_id' = [t \in AdpThreads |->
                        IF thr_pc[t] = "syncthreads end"
                          THEN thr_block_id[t] + AdpGridDim ELSE thr_block_id[t]]
  /\ shared_reads' = [t \in AdpThreads |-> {}]
  /\ shared_writes' = [t \in AdpThreads |-> {}]
  /\ UNCHANGED << adp_pc, row_lengths, row_blocks, blockIdx, thr_stride, shared_elements,
                  adp_result >>
  /\ UNCHANGED notAdp

\* every thread has left the loop over block_id
AdpReturn ==
  /\ adp_pc = "kernel"
  /\ \A t \in AdpThreads : thr_pc[t] = "done"
  /\ adp_pc' = "returned"
  /\ UNCHANGED << row_lengths, row_blocks, blockIdx, thr_pc, thr_block_id, thr_i,
                  thr_stride, shared_elements, adp_result, shared_reads, shared_writes >>
  /\ UNCHANGED notAdp

NextAdp ==
  \/ \E t \in AdpThreads : AdpTop(t)
  \/ \E t \in AdpThreads : AdpLoad(t)
  \/ \E t \in AdpThreads : AdpSum(t)
  \/ \E t \in AdpThreads : AdpAccumulate(t)
  \/ \E t \in AdpThreads : AdpReduce(t)
  \/ \E t \in AdpThreads : AdpStore(t)
  \/ AdpSyncthreads
  \/ AdpReturn

SpecAdp == InitAdp /\ [][NextAdp]_vars

\* the row blocks the followed thread block handles
OwnBlocks == {id \in 0 .. num_blocks - 1 : id % AdpGridDim = blockIdx}

\* C26: in both branches of the kernel (several rows with no more entries
\* than shared_elements holds; one row, reduced over a block of a power of
\* two threads) the threads of a block meet at the same barriers, no thread
\* reads or writes a slot of shared_elements that another thread has written
\* since the last barrier, and result[row] is the dot product of row and x
\* for every row of the row blocks the thread block has handled.
AdaptiveKernelSafe ==
  /\ \A t1 \in AdpThreads, t2 \in AdpThreads :
       /\ (AtBarrier(t1) /\ AtBarrier(t2))
            => thr_pc[t1] = thr_pc[t2] /\ thr_block_id[t1] = thr_block_id[t2]
       /\ AtBarrier(t1) => thr_pc[t2] # "done"
       /\ t1 # t2 => shared_writes[t1] \cap (shared_reads[t2] \cup shared_writes[t2]) = {}
  /\ adp_pc = "returned"
       => \A id \in OwnBlocks : \A row \in row_start(id) .. row_stop(id) - 1 :
            adp_result[row] = adp_dot_prod(adp_row_indices(row), adp_row_indices(row + 1))

\* a thread block has handled a block of several rows and then a block of
\* one row longer than the thread block, whose reduction read slots other
\* threads had written before the barrier
AdaptiveKernelSafeWitness ==
  /\ adp_pc = "returned"
  /\ \E id \in OwnBlocks : row_stop(id) - row_start(id) > 1
  /\ \E id \in OwnBlocks : /\ row_stop(id) - row_start(id) = 1
                           /\ row_lengths[row_stop(id)] > AdpBlockDim
                           /\ adp_result[row_start(id)] # 7
  /\ \A row \in 0 .. Len(row_lengths) - 1 :
       (\A id \in OwnBlocks : row < row_start(id) \/ row >= row_stop(id)) => adp_result[row] = 7
====
